---- MODULE Spec2Model ----
(***************************************************************************)
(* Verification model of the IMX283 V4L2 sensor driver (imx283.c, the      *)
(* cci_* register codec it carries, and the v4l2_link_freq_to_bitmap       *)
(* backport).                                                              *)
(*                                                                         *)
(* Every subdev operation is one atomic action: the driver runs each of    *)
(* them under imx283->mutex from entry to return.  The I2C bus is the      *)
(* environment: each action draws a fault plan that says which of the      *)
(* transfers it issues fail, and with which errno.  The bus log of the     *)
(* last operation is kept in the state so that ordering properties are     *)
(* state predicates.                                                       *)
(***************************************************************************)
EXTENDS Integers, Sequences, FiniteSets, TLC

VARIABLES
    streaming,      \* imx283->streaming
    hflip_grabbed,  \* V4L2_CTRL_FLAG_GRABBED of imx283->hflip
    vflip_grabbed,  \* V4L2_CTRL_FLAG_GRABBED of imx283->vflip
    pm_usage,       \* runtime-PM usage count of imx283->dev
    powered,        \* runtime-PM status is active (imx283_power_on has run)
    sys_suspended,  \* between imx283_suspend and imx283_resume
    freq,           \* imx283->freq, as an index into imx283_frequencies
    link_freq_idx,  \* imx283->link_freq_idx
    mode,           \* imx283->mode
    fmt_code,       \* imx283->fmt_code
    hmax,           \* imx283->hmax
    vmax,           \* imx283->vmax
    ctrl,           \* current values of the V4L2 controls
    exp_range,      \* [min, max] of the exposure control
    exp_def,        \* default value of the exposure control
    try_fmt,        \* the TRY format of the open file handle
    log,            \* bus events (writes, sleeps) of the last operation
    last_op,        \* the last operation, its input and its return value
    faults,         \* bus faults the environment may still inject
    lf,             \* one call of v4l2_link_freq_to_bitmap: inputs and outputs
    calc,           \* one call of the timing calculator: inputs and outputs
    cdc,            \* one call of the register codec: inputs and outputs
    thr,            \* the device mutex and the calls in progress, per thread
    leg             \* the device structure of the earlier driver variant

vars == <<streaming, hflip_grabbed, vflip_grabbed, pm_usage, powered,
          sys_suspended, freq, link_freq_idx, mode, fmt_code, hmax, vmax,
          ctrl, exp_range, exp_def, try_fmt, log, last_op, faults, lf, calc,
          cdc, thr, leg>>

drv_vars == <<streaming, hflip_grabbed, vflip_grabbed, pm_usage, powered,
              freq, link_freq_idx, mode, fmt_code, hmax, vmax,
              ctrl, exp_range, exp_def, try_fmt, log, last_op, faults>>

\* the records of the functions that are verified on drawn inputs
fn_vars == <<lf, calc, cdc, thr, leg>>

----------------------------------------------------------------------------
(* Bounds of the model                                                     *)

\* bus transfers that the environment may fail in one behaviour
MaxFaults == 1

\* the transfers of imx283_resume that may fail when calls run on different
\* threads: the first ConcFaultAt
ConcFaultAt == 2

\* the runtime-PM usage count of the earlier variant at which no further
\* stream start is made (a failed imx283_resume keeps one reference each time)
MaxUsage == 2

\* the calls one user thread makes in one behaviour, and the system sleep
\* cycles (imx283_suspend, then imx283_resume)
MaxCalls == 1
\* longest firmware link-frequency list drawn for v4l2_link_freq_to_bitmap
MaxFw == 2
\* longest driver link-frequency list drawn for v4l2_link_freq_to_bitmap
MaxDrv == 3

----------------------------------------------------------------------------
(* errno values                                                            *)

ENOENT == 2
EIO == 5
EINVAL == 22
ENODATA == 61
ENXIO == 6

\* what a failing i2c_master_send may return
BusErrors == {0 - EIO, 0 - ENXIO}

----------------------------------------------------------------------------
(* Register tokens: address in bits 0..15, width in bits 16..19, LE bit 20 *)

CCI_REG_WIDTH_SHIFT == 65536
CCI_REG_LE == 1048576

CCI_REG8(x) == (1 * CCI_REG_WIDTH_SHIFT) + x
CCI_REG16_LE(x) == CCI_REG_LE + (2 * CCI_REG_WIDTH_SHIFT) + x
CCI_REG24_LE(x) == CCI_REG_LE + (3 * CCI_REG_WIDTH_SHIFT) + x

RegAddr(reg) == reg % CCI_REG_WIDTH_SHIFT
RegWidth(reg) == (reg \div CCI_REG_WIDTH_SHIFT) % 16

IMX283_REG_STANDBY == CCI_REG8(12288)            \* 0x3000
IMX283_ACTIVE == 0
IMX283_STBLOGIC == 2
IMX283_STBDV == 8
IMX283_REG_CLAMP == CCI_REG8(12289)              \* 0x3001
IMX283_CLPSQRST == 16
IMX283_REG_PLSTMG08 == CCI_REG8(12291)           \* 0x3003
IMX283_PLSTMG08_VAL == 119
IMX283_REG_MDSEL1 == CCI_REG8(12292)             \* 0x3004
IMX283_REG_MDSEL2 == CCI_REG8(12293)             \* 0x3005
IMX283_REG_MDSEL3 == CCI_REG8(12294)             \* 0x3006
IMX283_REG_MDSEL4 == CCI_REG8(12295)             \* 0x3007
IMX283_REG_SVR == CCI_REG16_LE(12297)            \* 0x3009
IMX283_REG_HTRIMMING == CCI_REG8(12299)          \* 0x300b
IMX283_HTRIMMING_EN == 16
IMX283_HTRIMMING_RESERVED == 32
IMX283_REG_MDSEL7 == CCI_REG16_LE(12307)         \* 0x3013
IMX283_REG_Y_OUT_SIZE == CCI_REG16_LE(12335)     \* 0x302f
IMX283_REG_WRITE_VSIZE == CCI_REG16_LE(12337)    \* 0x3031
IMX283_REG_OB_SIZE_V == CCI_REG8(12339)          \* 0x3033
IMX283_REG_HMAX == CCI_REG16_LE(12342)           \* 0x3036
IMX283_HMAX_MAX == 65535
IMX283_REG_VMAX == CCI_REG24_LE(12344)           \* 0x3038
IMX283_VMAX_MAX == 1048575
IMX283_REG_SHR == CCI_REG16_LE(12347)            \* 0x303b
IMX283_REG_ANALOG_GAIN == CCI_REG16_LE(12354)    \* 0x3042
IMX283_REG_DIGITAL_GAIN == CCI_REG8(12356)       \* 0x3044
IMX283_ANA_GAIN_MAX == 1957
IMX283_DGTL_GAIN_MAX == 3
IMX283_REG_HTRIMMING_START == CCI_REG16_LE(12376) \* 0x3058
IMX283_REG_HTRIMMING_END == CCI_REG16_LE(12378)  \* 0x305a
IMX283_REG_MDSEL18 == CCI_REG16_LE(12534)        \* 0x30f6
IMX283_REG_XMSTA == CCI_REG8(12549)              \* 0x3105
IMX283_REG_SYNCDRV == CCI_REG8(12551)            \* 0x3107
IMX283_SYNCDRV_XHS_XVS == 162
IMX283_REG_STBPL == CCI_REG8(12811)              \* 0x320b
IMX283_STBPL_NORMAL == 0
IMX283_REG_PLRD1 == CCI_REG8(14017)              \* 0x36c1
IMX283_REG_PLRD2 == CCI_REG16_LE(14018)          \* 0x36c2
IMX283_REG_PLRD3 == CCI_REG8(14071)              \* 0x36f7
IMX283_REG_PLRD4 == CCI_REG8(14072)              \* 0x36f8
IMX283_REG_PLSTMG02 == CCI_REG8(13994)           \* 0x36aa
IMX283_PLSTMG02_VAL == 0
IMX283_REG_EBD_X_OUT_SIZE == CCI_REG16_LE(14932) \* 0x3a54
IMX283_REG_TPG_CTRL == CCI_REG8(12630)           \* 0x3156
IMX283_TPG_CTRL_CLKEN == 1
IMX283_TPG_CTRL_PATEN == 16
IMX283_REG_TPG_PAT == CCI_REG8(12631)            \* 0x3157

IMX283_EXPOSURE_MIN == 52
IMX283_EXPOSURE_MAX == 49865
IMX283_EXPOSURE_DEFAULT == 1000

MHZ(x) == x * 1000000

----------------------------------------------------------------------------
(* Static tables                                                           *)

R(reg, val) == [reg |-> reg, val |-> val]

imx283_frequencies ==
    << [mhz |-> MHZ(6),
        regs |-> << R(IMX283_REG_PLRD1, 0), R(IMX283_REG_PLRD2, 240),
                    R(IMX283_REG_PLRD3, 0), R(IMX283_REG_PLRD4, 192) >>],
       [mhz |-> MHZ(12),
        regs |-> << R(IMX283_REG_PLRD1, 1), R(IMX283_REG_PLRD2, 240),
                    R(IMX283_REG_PLRD3, 1), R(IMX283_REG_PLRD4, 192) >>],
       [mhz |-> MHZ(18),
        regs |-> << R(IMX283_REG_PLRD1, 1), R(IMX283_REG_PLRD2, 160),
                    R(IMX283_REG_PLRD3, 1), R(IMX283_REG_PLRD4, 128) >>],
       [mhz |-> MHZ(24),
        regs |-> << R(IMX283_REG_PLRD1, 2), R(IMX283_REG_PLRD2, 240),
                    R(IMX283_REG_PLRD3, 2), R(IMX283_REG_PLRD4, 192) >>] >>

IMX283_MODE_0 == 0
IMX283_MODE_1 == 1
IMX283_MODE_1A == 2
IMX283_MODE_1S == 3
IMX283_MODE_2 == 4

\* imx283_readout_modes[], indexed by the enum value (entries used by a catalog
\* mode, and 1S which start_streaming tests for)
imx283_readout_modes(m) ==
    CASE m = IMX283_MODE_0  -> [mdsel1 |-> 4,  mdsel2 |-> 3,  mdsel3 |-> 16, mdsel4 |-> 0]
      [] m = IMX283_MODE_1  -> [mdsel1 |-> 4,  mdsel2 |-> 1,  mdsel3 |-> 0,  mdsel4 |-> 0]
      [] m = IMX283_MODE_1A -> [mdsel1 |-> 4,  mdsel2 |-> 1,  mdsel3 |-> 32, mdsel4 |-> 80]
      [] m = IMX283_MODE_1S -> [mdsel1 |-> 4,  mdsel2 |-> 65, mdsel3 |-> 32, mdsel4 |-> 80]
      [] m = IMX283_MODE_2  -> [mdsel1 |-> 13, mdsel2 |-> 17, mdsel3 |-> 80, mdsel4 |-> 0]

\* the #if 0 leaves this list empty
mipi_data_rate_1440Mbps == << >>

mipi_data_rate_720Mbps ==
    << R(CCI_REG8(14021), 1),   \* 0x36c5
       R(CCI_REG8(15044), 1),   \* 0x3ac4
       R(CCI_REG8(12811), 0),   \* 0x320B STBPL
       R(CCI_REG8(12312), 119), \* 0x3018 TCLKPOST
       R(CCI_REG8(12314), 55),  \* 0x301A THSPREPARE
       R(CCI_REG8(12316), 103), \* 0x301C THSZERO
       R(CCI_REG8(12318), 55),  \* 0x301E THSTRAIL
       R(CCI_REG8(12320), 55),  \* 0x3020 TCLKTRAIL
       R(CCI_REG8(12322), 55),  \* 0x3022 TCLKPREPARE
       R(CCI_REG8(12324), 223), \* 0x3024 TCLKZERO[7:0]
       R(CCI_REG8(12325), 0),   \* 0x3025 TCLKZERO[8]
       R(CCI_REG8(12326), 47),  \* 0x3026 TLPX
       R(CCI_REG8(12328), 71),  \* 0x3028 THSEXIT
       R(CCI_REG8(12330), 15),  \* 0x302A TCKLPRE
       R(CCI_REG8(12548), 2) >> \* 0x3104 SYSMODE

link_frequencies == << MHZ(720), MHZ(360) >>

\* indexed from 0 like the C array
link_freq_reglist(idx) ==
    IF idx = 0 THEN mipi_data_rate_1440Mbps ELSE mipi_data_rate_720Mbps

imx283_active_area == [top |-> 108, left |-> 40, width |-> 5472, height |-> 3648]

CENTERED_RECTANGLE(rect, w, h) ==
    [left |-> rect.left + ((rect.width - w) \div 2),
     top |-> rect.top + ((rect.height - h) \div 2),
     width |-> w, height |-> h]

supported_modes_12bit ==
    << [mode |-> IMX283_MODE_0, bpp |-> 12,
        width |-> 5472 + 96, height |-> 3648 + 16,
        min_HMAX |-> 887, min_VMAX |-> 3793,
        default_HMAX |-> 900, default_VMAX |-> 4000, min_SHR |-> 12,
        horizontal_ob |-> 96, vertical_ob |-> 16,
        crop |-> CENTERED_RECTANGLE(imx283_active_area, 5472, 3648)],
       [mode |-> IMX283_MODE_2, bpp |-> 12,
        width |-> (5472 + 96) \div 2, height |-> (3648 + 8) \div 2,
        min_HMAX |-> 362, min_VMAX |-> 3840,
        default_HMAX |-> 375, default_VMAX |-> 3840, min_SHR |-> 12,
        horizontal_ob |-> 96 \div 2, vertical_ob |-> 8 \div 2,
        crop |-> CENTERED_RECTANGLE(imx283_active_area, 5472, 3648)] >>

supported_modes_10bit ==
    << [mode |-> IMX283_MODE_1, bpp |-> 10,
        width |-> 5472 + 96, height |-> 3648 + 16,
        min_HMAX |-> 745, min_VMAX |-> 3793,
        default_HMAX |-> 750, default_VMAX |-> 3840, min_SHR |-> 12,
        horizontal_ob |-> 96, vertical_ob |-> 16,
        crop |-> CENTERED_RECTANGLE(imx283_active_area, 5472, 3648)],
       [mode |-> IMX283_MODE_1A, bpp |-> 10,
        width |-> 5472 + 96, height |-> 3078 + 16,
        min_HMAX |-> 745, min_VMAX |-> 3203,
        default_HMAX |-> 750, default_VMAX |-> 3840, min_SHR |-> 12,
        horizontal_ob |-> 96, vertical_ob |-> 16,
        crop |-> CENTERED_RECTANGLE(imx283_active_area, 5472, 3078)] >>

\* MEDIA_BUS_FMT_SRGGB12_1X12 (0x3012), the default format code
MEDIA_BUS_FMT_SRGGB12_1X12 == 12306

\* the supported formats, four per bit depth in the order no flip, h flip,
\* v flip, h&v flips: SRGGB12, SGRBG12 (0x3011), SGBRG12 (0x3010),
\* SBGGR12 (0x3008), SRGGB10 (0x300f), SGRBG10 (0x300a), SGBRG10 (0x300e),
\* SBGGR10 (0x3007)
codes == << MEDIA_BUS_FMT_SRGGB12_1X12, 12305, 12304, 12296,
            12303, 12298, 12302, 12295 >>

\* no format handed back
NoFmt == [width |-> 0, height |-> 0, code |-> 0]

imx283_native_area == [top |-> 0, left |-> 0, width |-> 5592, height |-> 3710]

imx283_tpg_val == << 0, 0, 1, 2, 3, 10, 11 >>

----------------------------------------------------------------------------
(* The I2C bus and the register codec                                      *)

\* A fault plan is a sequence of [pos, err]: the pos-th transfer of the
\* operation fails with err.  Transfers are counted as they are issued.
FaultAt(plan, n) ==
    IF \E k \in 1..Len(plan) : plan[k].pos = n
    THEN (CHOOSE f \in {plan[k] : k \in 1..Len(plan)} : f.pos = n).err
    ELSE 0

Pow2(n) == 2 ^ n

\* the value bytes a write of `width` bytes carries
WireValue(reg, val) == val % Pow2(8 * RegWidth(reg))

\* int cci_write(imx283, reg, val, int *err); has_err: err is not NULL, and
\* then st.err is the slot it points to.  st.rv is the return value.
cci_write(st, reg, val, has_err) ==
    LET r == FaultAt(st.plan, st.n + 1)
    IN [st EXCEPT !.log = Append(@, [k |-> "w", reg |-> reg,
                                     val |-> WireValue(reg, val), res |-> r]),
                  !.n = @ + 1,
                  !.err = IF has_err /\ r < 0 THEN r ELSE @,
                  !.rv = r]

RECURSIVE cci_multi_reg_write_from(_, _, _)
cci_multi_reg_write_from(st, regs, i) ==
    IF i > Len(regs)
    THEN [st EXCEPT !.rv = 0]
    ELSE LET s1 == cci_write(st, regs[i].reg, regs[i].val, TRUE)
             s2 == [s1 EXCEPT !.err = s1.rv]    \* *err = cci_write(...)
         IN IF s2.err # 0
            THEN [s2 EXCEPT !.rv = s2.err]
            ELSE cci_multi_reg_write_from(s2, regs, i + 1)

\* int cci_multi_reg_write(imx283, regs, num_regs, int *err)
cci_multi_reg_write(st, regs) == cci_multi_reg_write_from(st, regs, 1)

usleep_range(st, min_us, max_us) ==
    [st EXCEPT !.log = Append(@, [k |-> "sleep", min |-> min_us, max |-> max_us])]

----------------------------------------------------------------------------
(* The register codec on the wire                                          *)

\* bool is_le = reg & CCI_REG_LE
RegIsLe(reg) == (reg \div CCI_REG_LE) % 2 = 1

\* the value byte cci_write stores at buf[2 + k]: (val >> (8 * i)) & 0xff
\* with i = k for a little-endian token and i = width - 1 - k otherwise; for
\* i >= 8 the shift is as wide as the type and the byte is the junk g
cci_write_value_byte(reg, val, k, g) ==
    IF (IF RegIsLe(reg) THEN k ELSE RegWidth(reg) - 1 - k) < 8
    THEN val[(IF RegIsLe(reg) THEN k ELSE RegWidth(reg) - 1 - k) + 1]
    ELSE g

\* the address bytes stored little end first
cci_write_buf_addr_le(reg, val, g) ==
    << RegAddr(reg) % 256, (RegAddr(reg) \div 256) % 256 >>
        \o [k \in 1..RegWidth(reg) |-> cci_write_value_byte(reg, val, k - 1, g)]

\* the 2 + width bytes cci_write hands to i2c_master_send
cci_write_buf(reg, val, g) ==
    << (RegAddr(reg) \div 256) % 256, RegAddr(reg) % 256 >>
        \o [k \in 1..RegWidth(reg) |-> cci_write_value_byte(reg, val, k - 1, g)]

\* int cci_write(imx283, reg, val, int *err) byte by byte: c.err is the slot
\* when has_err, fault is 0 or what a failing i2c_master_send returns.  A
\* width above 8 stores past buf[9] and shifts by 64 or more: ub.smash says
\* whether the call survives that, ub.g is the junk byte of the shifts.
cci_write_wire(c, reg, val, has_err, fault, ub) ==
    IF RegWidth(reg) > 8 /\ ub.smash
    THEN [c EXCEPT !.overrun = RegWidth(reg) - 8, !.crashed = TRUE]
    ELSE [c EXCEPT
            !.overrun = IF RegWidth(reg) > 8 THEN RegWidth(reg) - 8 ELSE @,
            !.bus = Append(@, [k |-> "send", buf |-> cci_write_buf(reg, val, ub.g),
                               res |-> IF fault < 0 THEN fault
                                       ELSE 2 + RegWidth(reg)]),
            !.err = IF has_err /\ fault < 0 THEN fault ELSE @,
            !.rv = IF fault < 0 THEN fault ELSE 0]

RECURSIVE cci_multi_reg_write_wire_all(_, _, _, _, _)
\* a batch write that goes on after a failed write and returns the last
\* failure
cci_multi_reg_write_wire_all(c, regs, results, ub, i) ==
    IF i > Len(regs)
    THEN [c EXCEPT !.rv = c.err]
    ELSE LET s1 == cci_write_wire(c, regs[i].reg, regs[i].val, TRUE, results[i], ub)
         IN cci_multi_reg_write_wire_all(
                [s1 EXCEPT !.err = IF s1.rv # 0 THEN s1.rv
                                   ELSE IF i = 1 THEN 0 ELSE c.err],
                regs, results, ub, i + 1)

RECURSIVE cci_multi_reg_write_wire(_, _, _, _, _)
\* int cci_multi_reg_write(imx283, regs, num_regs, int *err) from entry i on;
\* results[i] is the fault of the i-th send
cci_multi_reg_write_wire(c, regs, results, ub, i) ==
    IF i > Len(regs) \/ c.crashed
    THEN [c EXCEPT !.rv = 0]
    ELSE LET s1 == cci_write_wire(c, regs[i].reg, regs[i].val, TRUE, results[i], ub)
         IN IF s1.crashed
            THEN s1
            ELSE IF s1.rv # 0
                 THEN [s1 EXCEPT !.err = s1.rv]
                 ELSE cci_multi_reg_write_wire([s1 EXCEPT !.err = 0], regs,
                                               results, ub, i + 1)

\* int imx283_write_reg_1byte(imx283, reg, val) of the earlier variant of
\* the driver: sent is what i2c_master_send returns
imx283_write_reg_1byte(c, reg, val, sent) ==
    [c EXCEPT !.bus = Append(@, [k |-> "send",
                                 buf |-> << (reg \div 256) % 256, reg % 256, val >>,
                                 res |-> sent]),
              !.rv = IF sent # 3 THEN 0 - EIO ELSE 0]

RECURSIVE imx283_write_regs(_, _, _, _)
\* int imx283_write_regs(imx283, regs, len) of the earlier variant from
\* entry i on; an entry with address 0xFFFE is a pause of val milliseconds
imx283_write_regs(c, regs, results, i) ==
    IF i > Len(regs)
    THEN [c EXCEPT !.rv = 0]
    ELSE IF regs[i].address = 65534
         THEN imx283_write_regs(
                  [c EXCEPT !.bus = Append(@, [k |-> "sleep",
                                               min |-> regs[i].val * 1000,
                                               max |-> (regs[i].val + 1) * 1000])],
                  regs, results, i + 1)
         ELSE LET s1 == imx283_write_reg_1byte(c, regs[i].address, regs[i].val,
                                               results[i])
              IN IF s1.rv # 0
                 THEN s1
                 ELSE imx283_write_regs(s1, regs, results, i + 1)

RECURSIVE cci_read_value(_, _, _, _)
\* *val = 0; for (i = 0; i < width; i++) *val = (*val << 8) | data_buf[i];
cci_read_value(data_buf, width, i, val) ==
    IF i >= width
    THEN val
    ELSE cci_read_value(data_buf, width, i + 1,
                        << data_buf[i + 1] >> \o SubSeq(val, 1, 7))

\* int cci_read(imx283, reg, u64 *val, int *err): ret is what i2c_transfer
\* returns, data what the device puts into data_buf
cci_read_wire(c, reg, has_err, ret, data) ==
    IF has_err /\ c.err # 0
    THEN [c EXCEPT !.rv = c.err]
    ELSE IF RegWidth(reg) = 0 \/ RegWidth(reg) > 8
         THEN [c EXCEPT !.err = IF has_err THEN 0 - EINVAL ELSE @,
                        !.rv = 0 - EINVAL]
         ELSE IF ret # 2
              THEN [c EXCEPT
                      !.bus = Append(@, [k |-> "transfer", len |-> RegWidth(reg),
                                         buf |-> << (RegAddr(reg) \div 256) % 256,
                                                    RegAddr(reg) % 256 >>,
                                         res |-> ret]),
                      !.err = IF has_err THEN 0 - EIO ELSE @,
                      !.rv = 0 - EIO]
              ELSE [c EXCEPT
                      !.bus = Append(@, [k |-> "transfer", len |-> RegWidth(reg),
                                         buf |-> << (RegAddr(reg) \div 256) % 256,
                                                    RegAddr(reg) % 256 >>,
                                         res |-> ret]),
                      !.out = cci_read_value(data, RegWidth(reg), 0,
                                            << 0, 0, 0, 0, 0, 0, 0, 0 >>),
                      !.rv = 0]

----------------------------------------------------------------------------
(* Timing calculator                                                       *)

RECURSIVE MulDivStep(_, _, _, _, _, _)
MulDivStep(a, b, c, k, q, r) ==
    IF k = 0
    THEN q
    ELSE LET t == 2 * r + ((a \div k) % 2) * b
         IN MulDivStep(a, b, c, k \div 2, 2 * q + (t \div c), t % c)

\* floor(a * b / c), the u64 product and do_div of the driver, evaluated bit
\* by bit of a so that no intermediate leaves the 32-bit integers of TLC
\* (a < 2^18, 2c + b < 2^31; the u64 product itself never wraps there)
MulDiv(a, b, c) == MulDivStep(a, b, c, 131072, 0, 0)

\* the pixel rate taken from the default line length
PixelRate_default_hmax(m) == MulDiv(m.width, 72000000, m.default_HMAX)

\* pixel_rate = (u64)mode->width * 72000000; do_div(pixel_rate, mode->min_HMAX)
PixelRate(m) == MulDiv(m.width, 72000000, m.min_HMAX)

Min(a, b) == IF a < b THEN a ELSE b
Max(a, b) == IF a > b THEN a ELSE b
Clamp(x, lo, hi) == Min(Max(x, lo), hi)

----------------------------------------------------------------------------
(* 64-bit unsigned arithmetic                                              *)
(*                                                                         *)
(* A u64 is the sequence of its 8 bytes, least significant first, so that  *)
(* products, differences and casts wrap exactly as they do in C.           *)

\* the u64 of an integer 0 <= n < 2^31
u64(n) ==
    << n % 256, (n \div 256) % 256, (n \div 65536) % 256,
       (n \div 16777216) % 256, 0, 0, 0, 0 >>

\* the integer of a u64 below 2^31
u64_int(x) == x[1] + 256 * x[2] + 65536 * x[3] + 16777216 * x[4]

\* the low 3 bytes of a u64, as an integer
u64_low24(x) == x[1] + 256 * x[2] + 65536 * x[3]

\* (uint32_t)x
u32(x) == << x[1], x[2], x[3], x[4], 0, 0, 0, 0 >>

RECURSIVE u64_add_from(_, _, _, _)
u64_add_from(a, b, i, carry) ==
    IF i > 8
    THEN << >>
    ELSE << (a[i] + b[i] + carry) % 256 >>
         \o u64_add_from(a, b, i + 1, (a[i] + b[i] + carry) \div 256)

\* a + b in u64
u64_add(a, b) == u64_add_from(a, b, 1, 0)

RECURSIVE u64_sub_from(_, _, _, _)
u64_sub_from(a, b, i, borrow) ==
    IF i > 8
    THEN << >>
    ELSE << (256 + a[i] - b[i] - borrow) % 256 >>
         \o u64_sub_from(a, b, i + 1, IF a[i] - b[i] - borrow < 0 THEN 1 ELSE 0)

\* a - b in u64: a negative difference wraps
u64_sub(a, b) == u64_sub_from(a, b, 1, 0)

\* x < 2^15
u64_below_2_15(x) == x[2] < 128 /\ \A i \in 3..8 : x[i] = 0

RECURSIVE u64_mul_column(_, _, _, _)
\* the sum of the byte products a[i] * b[k + 1 - i], i = 1 .. k
u64_mul_column(a, b, k, i) ==
    IF i > k
    THEN 0
    ELSE a[i] * b[k + 1 - i] + u64_mul_column(a, b, k, i + 1)

RECURSIVE u64_mul_from(_, _, _, _)
u64_mul_from(a, b, k, carry) ==
    IF k > 8
    THEN << >>
    ELSE << (u64_mul_column(a, b, k, 1) + carry) % 256 >>
         \o u64_mul_from(a, b, k + 1, (u64_mul_column(a, b, k, 1) + carry) \div 256)

\* a * b in u64: the product wraps at 2^64; two factors below 2^15 have a
\* product below 2^30, which is computed directly
u64_mul(a, b) ==
    IF u64_below_2_15(a) /\ u64_below_2_15(b)
    THEN u64(u64_low24(a) * u64_low24(b))
    ELSE u64_mul_from(a, b, 1, 0)

RECURSIVE u64_less_from(_, _, _)
u64_less_from(a, b, i) ==
    IF i = 0
    THEN FALSE
    ELSE IF a[i] # b[i]
         THEN a[i] < b[i]
         ELSE u64_less_from(a, b, i - 1)

\* a < b
u64_less(a, b) == u64_less_from(a, b, 8)

\* min_t(uint64_t, a, b)
u64_min(a, b) == IF u64_less(b, a) THEN b ELSE a

RECURSIVE do_div_from(_, _, _, _)
\* long division by bytes from the most significant one; rem < base
do_div_from(n, base, i, rem) ==
    IF i = 0
    THEN << >>
    ELSE do_div_from(n, base, i - 1, (rem * 256 + n[i]) % base)
         \o << (rem * 256 + n[i]) \div base >>

\* do_div(n, base): the quotient of the u64 n by the 32-bit base, for
\* 0 < base < 2^23 (the remainder times 256 stays an integer of TLC)
do_div(n, base) == do_div_from(n, base, 8, 0)

----------------------------------------------------------------------------
(* Timing calculator                                                       *)

\* the offset left out of the numerator
calculate_v4l2_cid_exposure_no_offset(h, v, shr, svr, offset) ==
    u32(do_div(u64_mul(u64_sub(u64_mul(v, u64_add(svr, u64(1))), shr), h),
               u64_int(h)))

\* u64 calculate_v4l2_cid_exposure(u64 hmax, vmax, shr, svr, offset); every
\* argument and the result are u64, and 0 < hmax < 2^23
calculate_v4l2_cid_exposure(h, v, shr, svr, offset) ==
    u32(do_div(u64_add(u64_mul(u64_sub(u64_mul(v, u64_add(svr, u64(1))), shr), h),
                       offset),
               u64_int(h)))

\* max_shr = min_t(uint64_t, (svr + 1) * vmax - 4, 0xFFFF)
calculate_max_shr(v, svr) ==
    u64_min(u64_sub(u64_mul(u64_add(svr, u64(1)), v), u64(4)), u64(65535))

\* the two results exchanged
calculate_min_max_exchanged(h, v, min_shr, svr, offset) ==
    [min |-> calculate_v4l2_cid_exposure(h, v, min_shr, svr, offset),
     max |-> calculate_v4l2_cid_exposure(h, v, calculate_max_shr(v, svr), svr, offset)]

\* void calculate_min_max_v4l2_cid_exposure(hmax, vmax, min_shr, svr, offset,
\* u64 *min_exposure, u64 *max_exposure)
calculate_min_max_v4l2_cid_exposure(h, v, min_shr, svr, offset) ==
    [min |-> calculate_v4l2_cid_exposure(h, v, calculate_max_shr(v, svr), svr, offset),
     max |-> calculate_v4l2_cid_exposure(h, v, min_shr, svr, offset)]

\* uint32_t calculate_shr(uint32_t exposure, uint32_t hmax, uint64_t vmax,
\* uint32_t svr, uint32_t offset); the arguments are u64 values that fit
\* their C types, the result is a u64 below 2^32, and 0 < hmax < 2^23
calculate_shr(exposure, h, v, svr, offset) ==
    u32(u64_sub(u64_mul(v, u32(u64_add(svr, u64(1)))),
                do_div(u64_sub(u64_mul(exposure, h), offset), u64_int(h))))

----------------------------------------------------------------------------
(* Control arbiter                                                         *)

\* controls that the handler replays, in the order imx283_init_controls
\* creates them (PIXEL_RATE and LINK_FREQ are read-only and skipped)
CtrlOrder == << "VBLANK", "HBLANK", "EXPOSURE", "ANALOGUE_GAIN",
                "DIGITAL_GAIN", "HFLIP", "VFLIP", "TEST_PATTERN" >>

CtrlIds == {CtrlOrder[i] : i \in 1..Len(CtrlOrder)}

\* pm_runtime_get_if_in_use(imx283->dev) != 0
InUse_always(st) == TRUE

InUse(st) == st.pm_usage > 0 /\ st.powered

\* imx283_update_test_pattern that enables the generator whatever the
\* pattern write returned
imx283_update_test_pattern_unchecked(st, pattern_index) ==
    IF pattern_index >= Len(imx283_tpg_val)
    THEN [st EXCEPT !.rv = 0 - EINVAL]
    ELSE IF pattern_index # 0
         THEN cci_write(cci_write(st, IMX283_REG_TPG_PAT,
                                  imx283_tpg_val[pattern_index + 1], FALSE),
                        IMX283_REG_TPG_CTRL,
                        IMX283_TPG_CTRL_CLKEN + IMX283_TPG_CTRL_PATEN, FALSE)
         ELSE cci_write(st, IMX283_REG_TPG_CTRL, 0, FALSE)

\* int imx283_update_test_pattern(imx283, pattern_index)
imx283_update_test_pattern(st, pattern_index) ==
    IF pattern_index >= Len(imx283_tpg_val)
    THEN [st EXCEPT !.rv = 0 - EINVAL]
    ELSE IF pattern_index # 0
         THEN LET s1 == cci_write(st, IMX283_REG_TPG_PAT,
                                  imx283_tpg_val[pattern_index + 1], FALSE)
              IN IF s1.rv # 0
                 THEN s1
                 ELSE cci_write(s1, IMX283_REG_TPG_CTRL,
                                IMX283_TPG_CTRL_CLKEN + IMX283_TPG_CTRL_PATEN, FALSE)
         ELSE cci_write(st, IMX283_REG_TPG_CTRL, 0, FALSE)

RECURSIVE imx283_set_ctrl(_, _, _)

\* __v4l2_ctrl_modify_range(imx283->exposure, min, max, 1, def) as the VBLANK
\* branch calls it: range and default are replaced and a value that falls
\* outside the range is clamped and handed to s_ctrl; the new value is kept
\* if s_ctrl succeeds.  check_range() refuses min > max or a default outside
\* the range and changes nothing.
modify_range_exposure(st, min_e, max_e, def) ==
    IF min_e > max_e \/ def < min_e \/ def > max_e
    THEN st
    ELSE LET s1 == [st EXCEPT !.exp_range = [min |-> min_e, max |-> max_e],
                              !.exp_def = def]
             v == Clamp(st.ctrl["EXPOSURE"], min_e, max_e)
         IN IF v = st.ctrl["EXPOSURE"]
            THEN s1
            ELSE LET s2 == imx283_set_ctrl(s1, "EXPOSURE", v)
                 IN IF s2.rv = 0
                    THEN [s2 EXCEPT !.ctrl["EXPOSURE"] = v]
                    ELSE s2

\* current_exposure = clamp_t(uint32_t, current_exposure, min, max) and the
\* call of __v4l2_ctrl_modify_range: current_exposure is read before anything
\* was stored in it, sv.uninit is what the stack slot holds
set_ctrl_report_exposure(sv, min_e, max_e) ==
    modify_range_exposure(sv, min_e, max_e, Clamp(sv.uninit, min_e, max_e))

\* the bounds b of calculate_min_max_v4l2_cid_exposure, as the s64 arguments
\* of __v4l2_ctrl_modify_range (both are below 2^31)
set_ctrl_exposure_bounds(sv, b) ==
    set_ctrl_report_exposure(sv, u64_int(b.min), u64_int(b.max))

\* the range of the exposure control follows the frame length sv.vmax
set_ctrl_exposure_range(sv) ==
    set_ctrl_exposure_bounds(sv,
        calculate_min_max_v4l2_cid_exposure(
            u64(sv.hmax), u64(sv.vmax), u64(sv.mode.min_SHR), u64(0), u64(209)))

\* the VBLANK branch that takes the control value for the frame length
set_ctrl_vblank_range_no_height(st, id, val) ==
    IF id = "VBLANK"
    THEN set_ctrl_exposure_range([st EXCEPT !.vmax = val])
    ELSE st

\* imx283_set_ctrl before it touches the hardware: a new VBLANK moves vmax
\* and the exposure range
set_ctrl_vblank_range(st, id, val) ==
    IF id = "VBLANK"
    THEN set_ctrl_exposure_range([st EXCEPT !.vmax = st.mode.height + val])
    ELSE st

\* imx283_set_ctrl from pm_runtime_get_if_in_use on: nothing is written
\* unless the device is in use
set_ctrl_apply(s1, id, val) ==
    IF ~InUse(s1)
    THEN [s1 EXCEPT !.rv = 0]
    ELSE CASE id = "EXPOSURE" ->
                cci_write(s1, IMX283_REG_SHR,
                          u64_low24(calculate_shr(u64(val), u64(s1.hmax),
                                                  u64(s1.vmax), u64(0), u64(209))),
                          FALSE)
           [] id = "HBLANK" ->
                LET h == MulDiv(s1.mode.width + val, 72000000, PixelRate(s1.mode))
                IN cci_write([s1 EXCEPT !.hmax = h % 65536],
                             IMX283_REG_HMAX, h, FALSE)
           [] id = "VBLANK" ->
                cci_write([s1 EXCEPT !.vmax = s1.mode.height + val],
                          IMX283_REG_VMAX, s1.mode.height + val, FALSE)
           [] id = "ANALOGUE_GAIN" ->
                cci_write(s1, IMX283_REG_ANALOG_GAIN, val, FALSE)
           [] id = "DIGITAL_GAIN" ->
                cci_write(s1, IMX283_REG_DIGITAL_GAIN, val, FALSE)
           [] id \in {"HFLIP", "VFLIP"} ->
                [s1 EXCEPT !.rv = 0]
           [] id = "TEST_PATTERN" ->
                imx283_update_test_pattern(s1, val)

\* int imx283_set_ctrl(struct v4l2_ctrl *ctrl): the s_ctrl op, for control id
\* with the new value val
imx283_set_ctrl(st, id, val) ==
    set_ctrl_apply(set_ctrl_vblank_range(st, id, val), id, val)

RECURSIVE v4l2_ctrl_handler_setup_from(_, _)
v4l2_ctrl_handler_setup_from(st, i) ==
    IF i > Len(CtrlOrder)
    THEN st
    ELSE LET s1 == imx283_set_ctrl(st, CtrlOrder[i], st.ctrl[CtrlOrder[i]])
         IN IF s1.rv # 0
            THEN s1
            ELSE v4l2_ctrl_handler_setup_from(s1, i + 1)

\* __v4l2_ctrl_handler_setup(imx283->sd.ctrl_handler): s_ctrl of every
\* writable control with its current value, in creation order, stopping at
\* the first one that fails; st.rv is its return value
v4l2_ctrl_handler_setup(st) ==
    v4l2_ctrl_handler_setup_from([st EXCEPT !.rv = 0], 1)

----------------------------------------------------------------------------
(* Streaming state machine                                                 *)

\* one statement of a straight-line register sequence whose writes all
\* share the slot `ret`: a cci_write, a cci_multi_reg_write or a usleep_range
write_step(st, s) ==
    CASE s.k = "w" -> cci_write(st, s.reg, s.val, TRUE)
      [] s.k = "regs" -> cci_multi_reg_write(st, s.regs)
      [] s.k = "sleep" -> usleep_range(st, s.min, s.max)

RECURSIVE write_steps_from(_, _, _)
write_steps_from(st, steps, i) ==
    IF i > Len(steps)
    THEN st
    ELSE write_steps_from(write_step(st, steps[i]), steps, i + 1)

\* the statements of `steps` in program order
write_steps(st, steps) == write_steps_from(st, steps, 1)

\* the slot `ret` becomes the return value
return_err(st) == [st EXCEPT !.rv = st.err]

\* the statements of imx283_standby_cancel
standby_cancel_steps(st) ==
    << [k |-> "w", reg |-> IMX283_REG_STANDBY,
        val |-> IMX283_STBLOGIC + IMX283_STBDV],
       [k |-> "regs", regs |-> imx283_frequencies[st.freq + 1].regs],
       [k |-> "w", reg |-> IMX283_REG_PLSTMG08, val |-> IMX283_PLSTMG08_VAL],
       [k |-> "w", reg |-> IMX283_REG_PLSTMG02, val |-> IMX283_PLSTMG02_VAL],
       [k |-> "w", reg |-> IMX283_REG_STBPL, val |-> IMX283_STBPL_NORMAL],
       [k |-> "regs", regs |-> link_freq_reglist(st.link_freq_idx)],
       [k |-> "sleep", min |-> 1000, max |-> 2000],
       [k |-> "w", reg |-> IMX283_REG_STANDBY, val |-> IMX283_ACTIVE],
       [k |-> "sleep", min |-> 19000, max |-> 20000],
       [k |-> "w", reg |-> IMX283_REG_CLAMP, val |-> IMX283_CLPSQRST],
       [k |-> "w", reg |-> IMX283_REG_XMSTA, val |-> 0],
       [k |-> "w", reg |-> IMX283_REG_SYNCDRV, val |-> IMX283_SYNCDRV_XHS_XVS] >>

\* imx283_standby_cancel with the sensor activated before the MIPI link
\* speed is configured
imx283_standby_cancel_early_activate(st) ==
    LET steps == standby_cancel_steps(st)
        moved == << steps[1], steps[2], steps[3], steps[4], steps[5],
                    steps[7], steps[8], steps[6], steps[9], steps[10],
                    steps[11], steps[12] >>
    IN return_err(write_steps([st EXCEPT !.err = 0], moved))

\* int imx283_standby_cancel(imx283): every write shares the slot `ret`
imx283_standby_cancel(st) ==
    return_err(write_steps([st EXCEPT !.err = 0], standby_cancel_steps(st)))

\* the readout-mode writes of imx283_start_streaming
start_streaming_readout_steps(m) ==
    LET readout == imx283_readout_modes(m.mode)
    IN << [k |-> "w", reg |-> IMX283_REG_MDSEL1, val |-> readout.mdsel1],
          [k |-> "w", reg |-> IMX283_REG_MDSEL2, val |-> readout.mdsel2],
          [k |-> "w", reg |-> IMX283_REG_MDSEL3, val |-> readout.mdsel3],
          [k |-> "w", reg |-> IMX283_REG_MDSEL4, val |-> readout.mdsel4] >>
       \o (IF m.mode = IMX283_MODE_1S
           THEN << [k |-> "w", reg |-> IMX283_REG_MDSEL7, val |-> 1],
                   [k |-> "w", reg |-> IMX283_REG_MDSEL18, val |-> 4248] >>
           ELSE << >>)

\* the readout-mode writes of imx283_start_streaming, entered with ret == 0
start_streaming_readout(c) ==
    write_steps(c, start_streaming_readout_steps(c.mode))

\* the size and default-timing writes of imx283_start_streaming
start_streaming_tail_steps(m) ==
    << [k |-> "w", reg |-> IMX283_REG_SVR, val |-> 0],
       [k |-> "w", reg |-> IMX283_REG_Y_OUT_SIZE, val |-> m.height - m.vertical_ob],
       [k |-> "w", reg |-> IMX283_REG_WRITE_VSIZE, val |-> m.height],
       [k |-> "w", reg |-> IMX283_REG_OB_SIZE_V, val |-> m.vertical_ob],
       [k |-> "w", reg |-> IMX283_REG_HTRIMMING,
        val |-> IMX283_HTRIMMING_EN + IMX283_HTRIMMING_RESERVED],
       [k |-> "w", reg |-> IMX283_REG_HTRIMMING_START, val |-> m.crop.left],
       [k |-> "w", reg |-> IMX283_REG_HTRIMMING_END,
        val |-> m.crop.left + m.crop.width + 1],
       [k |-> "w", reg |-> IMX283_REG_HMAX, val |-> m.default_HMAX],
       [k |-> "w", reg |-> IMX283_REG_VMAX, val |-> m.default_VMAX],
       [k |-> "w", reg |-> IMX283_REG_SHR, val |-> m.min_SHR],
       [k |-> "w", reg |-> IMX283_REG_EBD_X_OUT_SIZE, val |-> 0] >>

\* the rest of imx283_start_streaming once the readout mode is written,
\* ending with ret = __v4l2_ctrl_handler_setup()
start_streaming_tail(r) ==
    v4l2_ctrl_handler_setup(write_steps(r, start_streaming_tail_steps(r.mode)))

\* imx283_start_streaming without the test of ret after the readout mode
start_streaming_unchecked(r) ==
    start_streaming_tail(r)

\* the test of ret after the readout-mode writes
start_streaming_checked(r) ==
    IF r.err # 0
    THEN return_err(r)
    ELSE start_streaming_tail(r)

\* imx283_start_streaming once imx283_standby_cancel has returned c
start_streaming_after_cancel(c) ==
    IF c.rv # 0
    THEN c
    ELSE start_streaming_checked(start_streaming_readout(c))

\* int imx283_start_streaming(imx283); st.rv is the return value
imx283_start_streaming(st) ==
    start_streaming_after_cancel(imx283_standby_cancel(st))

\* void imx283_stop_streaming(imx283)
imx283_stop_streaming(st) ==
    cci_write(st, IMX283_REG_STANDBY, IMX283_STBLOGIC, FALSE)

\* pm_runtime_get_sync(): the usage count is taken first; a suspended device
\* is resumed through imx283_power_on, which fails with pm_err # 0
pm_runtime_get_sync(st, pm_err) ==
    LET s1 == [st EXCEPT !.pm_usage = @ + 1]
    IN IF s1.powered
       THEN [s1 EXCEPT !.rv = 1]
       ELSE IF pm_err # 0
            THEN [s1 EXCEPT !.rv = pm_err]
            ELSE [s1 EXCEPT !.powered = TRUE, !.rv = 0]

pm_runtime_put_noidle(st) == [st EXCEPT !.pm_usage = @ - 1]

\* pm_runtime_put(): dropping the last reference lets the device idle and
\* runtime-suspend through imx283_power_off
pm_runtime_put(st) ==
    [st EXCEPT !.pm_usage = @ - 1,
               !.powered = IF st.pm_usage = 1 THEN FALSE ELSE @]

\* the flips are left as they are
grab_flips_none(st, enable) == st

\* __v4l2_ctrl_grab(imx283->vflip, enable); __v4l2_ctrl_grab(imx283->hflip, enable)
grab_flips(st, enable) ==
    [st EXCEPT !.vflip_grabbed = enable, !.hflip_grabbed = enable]

\* mutex_lock(&imx283->mutex) by the call that works on st
mutex_lock(st) == [st EXCEPT !.mutex = TRUE]

\* mutex_unlock(&imx283->mutex)
mutex_unlock(st) == [st EXCEPT !.mutex = FALSE]

\* lockdep_assert_held(&imx283->mutex), the first statement of
\* imx283_get_format_code: st.lockdep says that no assertion has failed
lockdep_assert_held(st) == [st EXCEPT !.lockdep = @ /\ st.mutex]

\* imx283_set_stream without the early return for a redundant request
imx283_set_stream_always(st, enable, pm_err) ==
    LET l == mutex_lock(st)
    IN IF enable
       THEN LET p == pm_runtime_get_sync(l, pm_err)
            IN IF p.rv < 0
               THEN mutex_unlock(pm_runtime_put_noidle(p))
               ELSE LET s == imx283_start_streaming(p)
                    IN IF s.rv # 0
                       THEN mutex_unlock(pm_runtime_put(s))
                       ELSE mutex_unlock(
                                grab_flips([s EXCEPT !.streaming = enable], enable))
       ELSE LET s == pm_runtime_put(imx283_stop_streaming(l))
            IN mutex_unlock([grab_flips([s EXCEPT !.streaming = enable], enable)
                               EXCEPT !.rv = 0])

\* imx283_set_stream that gives up a stop whose standby write failed
imx283_set_stream_stop_checked(st, enable, pm_err) ==
    LET l == mutex_lock(st)
    IN IF l.streaming = enable
       THEN mutex_unlock([l EXCEPT !.rv = 0])
       ELSE IF enable
            THEN LET p == pm_runtime_get_sync(l, pm_err)
                 IN IF p.rv < 0
                    THEN mutex_unlock(pm_runtime_put_noidle(p))
                    ELSE LET s == imx283_start_streaming(p)
                         IN IF s.rv # 0
                            THEN mutex_unlock(pm_runtime_put(s))
                            ELSE mutex_unlock(
                                     grab_flips([s EXCEPT !.streaming = enable],
                                                enable))
            ELSE LET w == imx283_stop_streaming(l)
                 IN IF w.rv # 0
                    THEN mutex_unlock(w)
                    ELSE LET s == pm_runtime_put(w)
                         IN mutex_unlock(
                                [grab_flips([s EXCEPT !.streaming = enable], enable)
                                   EXCEPT !.rv = 0])

\* int imx283_set_stream(sd, enable); st.rv is the return value.  The mutex
\* is released before the early return, at the end, and at err_unlock, which
\* the failed power-up reaches directly and the failed start through
\* err_rpm_put.
imx283_set_stream(st, enable, pm_err) ==
    LET l == mutex_lock(st)
    IN IF l.streaming = enable
       THEN mutex_unlock([l EXCEPT !.rv = 0])
       ELSE IF enable
            THEN LET p == pm_runtime_get_sync(l, pm_err)
                 IN IF p.rv < 0
                    THEN mutex_unlock(pm_runtime_put_noidle(p))
                    ELSE LET s == imx283_start_streaming(p)
                         IN IF s.rv # 0
                            THEN mutex_unlock(pm_runtime_put(s))
                            ELSE mutex_unlock(
                                     grab_flips([s EXCEPT !.streaming = enable],
                                                enable))
            ELSE LET s == pm_runtime_put(imx283_stop_streaming(l))
                 IN mutex_unlock(
                        [grab_flips([s EXCEPT !.streaming = enable], enable)
                           EXCEPT !.rv = 0])

\* int imx283_suspend(dev)
imx283_suspend(st) ==
    LET s == IF st.streaming THEN imx283_stop_streaming(st) ELSE st
    IN [s EXCEPT !.rv = 0]

\* int imx283_resume(dev)
imx283_resume(st) ==
    IF st.streaming
    THEN LET s == imx283_start_streaming(st)
         IN IF s.rv # 0
            THEN LET e == imx283_stop_streaming(s)
                 IN [e EXCEPT !.streaming = FALSE, !.rv = s.rv]
            ELSE [s EXCEPT !.rv = 0]
    ELSE [st EXCEPT !.rv = 0]

----------------------------------------------------------------------------
(* Format and framing defaults                                             *)

\* __v4l2_ctrl_s_ctrl(ctrl, val): s_ctrl runs only if the value changes, and
\* the value is kept only if s_ctrl succeeds
v4l2_ctrl_s_ctrl(st, id, val) ==
    IF st.ctrl[id] = val
    THEN [st EXCEPT !.rv = 0]
    ELSE LET s == imx283_set_ctrl(st, id, val)
         IN IF s.rv = 0 THEN [s EXCEPT !.ctrl[id] = val] ELSE s

\* void imx283_set_framing_limits(imx283); the ranges of hblank, vblank and
\* pixel_rate it refreshes are not part of the state
imx283_set_framing_limits(st) ==
    LET m == st.mode
        s1 == [st EXCEPT !.vmax = m.default_VMAX, !.hmax = m.default_HMAX]
        def_hblank == MulDiv(m.default_HMAX, PixelRate(m), 72000000) - m.width
        s2 == v4l2_ctrl_s_ctrl(s1, "HBLANK", def_hblank)
    IN v4l2_ctrl_s_ctrl(s2, "VBLANK", m.default_VMAX - m.height)

----------------------------------------------------------------------------
(* Pad formats                                                             *)

\* get_mode_table(code, &mode_list, &num_modes); << >> stands for NULL
get_mode_table(code) ==
    IF \E i \in 1..4 : codes[i] = code
    THEN supported_modes_12bit
    ELSE IF \E i \in 5..8 : codes[i] = code
         THEN supported_modes_10bit
         ELSE << >>

\* the value of i when the loop of imx283_get_format_code ends: the first i
\* with codes[i] == code, ARRAY_SIZE(codes) if there is none (from 0)
get_format_code_i(code) ==
    IF \E i \in 1..Len(codes) : codes[i] = code
    THEN (CHOOSE i \in 1..Len(codes) :
             codes[i] = code /\ \A j \in 1..(i - 1) : codes[j] # code) - 1
    ELSE Len(codes)

\* u32 imx283_get_format_code(imx283, code): codes[i] is returned, the flip
\* controls are not read; codes[ARRAY_SIZE(codes)] is whatever lies behind
\* the table, st.oob
imx283_get_format_code(st, code) ==
    IF get_format_code_i(code) < Len(codes)
    THEN codes[get_format_code_i(code) + 1]
    ELSE st.oob

Abs(x) == IF x < 0 THEN 0 - x ELSE x

RECURSIVE v4l2_find_nearest_size_from(_, _, _, _, _, _)
\* the loop of __v4l2_find_nearest_size from entry i on: an entry replaces
\* the best one unless its error is larger, and an exact match ends the loop
v4l2_find_nearest_size_from(array, width, height, i, best, min_error) ==
    IF i > Len(array)
    THEN best
    ELSE LET error == Abs(array[i].width - width) + Abs(array[i].height - height)
         IN IF error > min_error
            THEN v4l2_find_nearest_size_from(array, width, height, i + 1,
                                             best, min_error)
            ELSE IF error = 0
                 THEN i
                 ELSE v4l2_find_nearest_size_from(array, width, height, i + 1,
                                                  i, error)

\* v4l2_find_nearest_size(array, size, width, height, width, height): the
\* position of the entry found (0 stands for NULL); min_error starts at
\* U32_MAX, above every error of the sizes drawn
v4l2_find_nearest_size(array, width, height) ==
    v4l2_find_nearest_size_from(array, width, height, 1, 0, 2147483647)

\* imx283_update_image_pad_format(imx283, mode, fmt)
imx283_update_image_pad_format(m, code) ==
    [width |-> m.width, height |-> m.height, code |-> code]

\* imx283_set_pad_format that stores the mode for a TRY request too
set_pad_format_mode_try_stores(st, which, c, m) ==
    LET fmt == imx283_update_image_pad_format(m, c)
        t == IF which = "TRY" THEN [st EXCEPT !.try_fmt = fmt] ELSE st
    IN IF t.mode # m
       THEN mutex_unlock(
                [imx283_set_framing_limits([t EXCEPT !.mode = m, !.fmt_code = c])
                   EXCEPT !.fmt = fmt, !.rv = 0])
       ELSE mutex_unlock([t EXCEPT !.fmt = fmt, !.rv = 0])

\* imx283_set_pad_format once the mode is found
set_pad_format_mode(st, which, c, m) ==
    LET fmt == imx283_update_image_pad_format(m, c)
    IN IF which = "TRY"
       THEN mutex_unlock([st EXCEPT !.try_fmt = fmt, !.fmt = fmt, !.rv = 0])
       ELSE IF st.mode # m
            THEN mutex_unlock(
                     [imx283_set_framing_limits(
                          [st EXCEPT !.mode = m, !.fmt_code = c])
                        EXCEPT !.fmt = fmt, !.rv = 0])
            ELSE mutex_unlock([st EXCEPT !.fmt = fmt, !.rv = 0])

\* int imx283_set_pad_format(sd, sd_state, fmt); st.fmt is the format handed
\* back.  With no catalog v4l2_find_nearest_size returns NULL and
\* imx283_update_image_pad_format reads mode->width through it: st.oops, the
\* call does not return.
imx283_set_pad_format(st, which, code, width, height) ==
    LET l == lockdep_assert_held(mutex_lock(st))
        c == imx283_get_format_code(l, code)
        mode_list == get_mode_table(c)
    IN IF mode_list = << >>
       THEN [l EXCEPT !.oops = TRUE]
       ELSE set_pad_format_mode(
                l, which, c,
                mode_list[v4l2_find_nearest_size(mode_list, width, height)])

\* int imx283_get_pad_format(sd, sd_state, fmt)
imx283_get_pad_format(st, which) ==
    LET l == lockdep_assert_held(mutex_lock(st))
    IN IF which = "TRY"
       THEN LET c == imx283_get_format_code(l, l.try_fmt.code)
            IN mutex_unlock([l EXCEPT !.try_fmt.code = c,
                                      !.fmt = [l.try_fmt EXCEPT !.code = c],
                                      !.rv = 0])
       ELSE mutex_unlock(
                [l EXCEPT !.fmt = imx283_update_image_pad_format(
                                      l.mode, imx283_get_format_code(l, l.fmt_code)),
                          !.rv = 0])

\* int imx283_enum_mbus_code(sd, sd_state, code); only the code of st.fmt is
\* set
imx283_enum_mbus_code(st, index) ==
    IF index >= Len(codes) \div 4
    THEN [st EXCEPT !.rv = 0 - EINVAL]
    ELSE [lockdep_assert_held(st)
            EXCEPT !.fmt = [width |-> 0, height |-> 0,
                            code |-> imx283_get_format_code(st, codes[index * 4 + 1])],
                   !.rv = 0]

\* int imx283_enum_frame_size(sd, sd_state, fse); st.fmt holds the width and
\* height handed back
imx283_enum_frame_size(st, code, index) ==
    LET mode_list == get_mode_table(code)
        l == lockdep_assert_held(st)
    IN IF index >= Len(mode_list)
       THEN [st EXCEPT !.rv = 0 - EINVAL]
       ELSE IF code # imx283_get_format_code(l, code)
            THEN [l EXCEPT !.rv = 0 - EINVAL]
            ELSE [l EXCEPT !.fmt = imx283_update_image_pad_format(
                                      mode_list[index + 1], code),
                           !.rv = 0]

\* int imx283_open(sd, fh) on the file handle whose TRY format is
\* st.try_fmt; the try crop it sets is always imx283_active_area
imx283_open_fh(st) ==
    LET l == lockdep_assert_held(mutex_lock(st))
        c == imx283_get_format_code(l, MEDIA_BUS_FMT_SRGGB12_1X12)
    IN mutex_unlock(
           [l EXCEPT !.try_fmt = [width |-> supported_modes_12bit[1].width,
                                  height |-> supported_modes_12bit[1].height,
                                  code |-> c],
                     !.rv = 0])

\* int imx283_get_selection(sd, sd_state, sel); st.fmt is the rectangle
\* handed back
imx283_get_selection(st, target, which) ==
    CASE target = "CROP" ->
            LET l == mutex_lock(st)
            IN mutex_unlock(
                   [l EXCEPT !.fmt = IF which = "TRY" THEN imx283_active_area
                                     ELSE l.mode.crop,
                             !.rv = 0])
      [] target = "NATIVE_SIZE" ->
            [st EXCEPT !.fmt = imx283_native_area, !.rv = 0]
      [] target \in {"CROP_DEFAULT", "CROP_BOUNDS"} ->
            [st EXCEPT !.fmt = imx283_active_area, !.rv = 0]
      [] OTHER -> [st EXCEPT !.rv = 0 - EINVAL]

\* imx283_open(sd, fh): the TRY format of a new file handle
imx283_open ==
    [width |-> supported_modes_12bit[1].width,
     height |-> supported_modes_12bit[1].height,
     code |-> MEDIA_BUS_FMT_SRGGB12_1X12]

\* the device as imx283_probe leaves it: default format, runtime PM enabled
\* and idle, controls created with their defaults, framing limits applied
ProbeState(f, lfi) ==
    LET m == supported_modes_12bit[1]
        st == [streaming |-> FALSE, hflip_grabbed |-> FALSE,
               vflip_grabbed |-> FALSE, pm_usage |-> 0, powered |-> FALSE,
               freq |-> f, link_freq_idx |-> lfi,
               mode |-> m, fmt_code |-> MEDIA_BUS_FMT_SRGGB12_1X12,
               hmax |-> 0, vmax |-> 0,
               ctrl |-> [id \in CtrlIds |->
                           CASE id = "VBLANK" -> m.default_VMAX - m.height
                             [] id = "EXPOSURE" -> IMX283_EXPOSURE_DEFAULT
                             [] OTHER -> 0],
               exp_range |-> [min |-> IMX283_EXPOSURE_MIN,
                              max |-> IMX283_EXPOSURE_MAX],
               exp_def |-> IMX283_EXPOSURE_DEFAULT,
               try_fmt |-> imx283_open, fmt |-> NoFmt, uninit |-> 0,
               oob |-> 0, oops |-> FALSE, mutex |-> FALSE, lockdep |-> TRUE,
               log |-> << >>, n |-> 0, plan |-> << >>, err |-> 0, rv |-> 0]
    IN imx283_set_framing_limits(st)

----------------------------------------------------------------------------
(* v4l2_link_freq_to_bitmap                                                *)

BIT(j) == Pow2(j)

TestBit(bitmap, j) == (bitmap \div BIT(j)) % 2 = 1

\* *bitmap |= BIT(j)
OrBit(bitmap, j) == IF TestBit(bitmap, j) THEN bitmap ELSE bitmap + BIT(j)

RECURSIVE link_freq_inner(_, _, _, _)
\* the loop over j for one firmware entry f; j counts from 0 as in the source
link_freq_inner(f, driver_link_freqs, j, bitmap) ==
    IF j >= Len(driver_link_freqs)
    THEN bitmap
    ELSE IF f # driver_link_freqs[j + 1]
         THEN link_freq_inner(f, driver_link_freqs, j + 1, bitmap)
         ELSE OrBit(bitmap, j)     \* and break

RECURSIVE link_freq_outer(_, _, _, _)
link_freq_outer(fw_link_freqs, driver_link_freqs, i, bitmap) ==
    IF i >= Len(fw_link_freqs)
    THEN bitmap
    ELSE link_freq_outer(fw_link_freqs, driver_link_freqs, i + 1,
             link_freq_inner(fw_link_freqs[i + 1], driver_link_freqs, 0, bitmap))

\* v4l2_link_freq_to_bitmap without the test for an empty firmware list
v4l2_link_freq_to_bitmap_no_empty_test(fw_link_freqs, driver_link_freqs, bitmap_in) ==
    LET b == link_freq_outer(fw_link_freqs, driver_link_freqs, 0, 0)
    IN IF b = 0
       THEN [ret |-> 0 - ENOENT, bitmap |-> b]
       ELSE [ret |-> 0, bitmap |-> b]

\* v4l2_link_freq_to_bitmap that does not zero *bitmap first
v4l2_link_freq_to_bitmap_not_zeroed(fw_link_freqs, driver_link_freqs, bitmap_in) ==
    IF Len(fw_link_freqs) = 0
    THEN [ret |-> 0 - ENODATA, bitmap |-> bitmap_in]
    ELSE LET b == link_freq_outer(fw_link_freqs, driver_link_freqs, 0, bitmap_in)
         IN IF b = 0
            THEN [ret |-> 0 - ENOENT, bitmap |-> b]
            ELSE [ret |-> 0, bitmap |-> b]

\* int v4l2_link_freq_to_bitmap(dev, fw_link_freqs, n, driver_link_freqs, m,
\* unsigned long *bitmap): bitmap_in is what *bitmap holds at the call
v4l2_link_freq_to_bitmap(fw_link_freqs, driver_link_freqs, bitmap_in) ==
    LET zeroed == 0
    IN IF Len(fw_link_freqs) = 0
       THEN [ret |-> 0 - ENODATA, bitmap |-> zeroed]
       ELSE LET b == link_freq_outer(fw_link_freqs, driver_link_freqs, 0, zeroed)
            IN IF b = 0
               THEN [ret |-> 0 - ENOENT, bitmap |-> b]
               ELSE [ret |-> 0, bitmap |-> b]

----------------------------------------------------------------------------
(* Endpoint parsing                                                        *)

RECURSIVE parse_endpoint_outer(_, _, _)
\* the loops of imx283_parse_endpoint over the firmware frequencies from
\* entry i on: each entry must be one of link_frequencies, and every entry
\* found overwrites link_freq_idx
parse_endpoint_outer(fw, i, idx) ==
    IF i > Len(fw)
    THEN [ret |-> 0, link_freq_idx |-> idx]
    ELSE IF \E j \in 1..Len(link_frequencies) : link_frequencies[j] = fw[i]
         THEN parse_endpoint_outer(fw, i + 1,
                  (CHOOSE j \in 1..Len(link_frequencies) :
                      /\ link_frequencies[j] = fw[i]
                      /\ \A k \in 1..(j - 1) : link_frequencies[k] # fw[i]) - 1)
         ELSE [ret |-> 0 - EINVAL, link_freq_idx |-> idx]

\* int imx283_parse_endpoint(imx283) once the endpoint is found and parsed:
\* lanes is bus_cfg.bus.mipi_csi2.num_data_lanes, fw is
\* bus_cfg.link_frequencies; link_freq_idx is 0 in the zeroed structure
imx283_parse_endpoint(lanes, fw) ==
    IF lanes # 4
    THEN [ret |-> 0 - EINVAL, link_freq_idx |-> 0]
    ELSE IF Len(fw) = 0
         THEN [ret |-> 0 - EINVAL, link_freq_idx |-> 0]
         ELSE parse_endpoint_outer(fw, 1, 0)

----------------------------------------------------------------------------
(* Environment: fault plans                                                *)

\* upper bound of the transfers one imx283_start_streaming issues: standby
\* cancel, readout mode, sizes and defaults, control replay
StartTransfers(lfi) ==
    (12 + Len(link_freq_reglist(lfi))) + 4 + 11 + (Len(CtrlOrder) + 1)

RECURSIVE Plans(_, _, _)
\* the fault plans with at most k faults at positions lo..hi
Plans(k, lo, hi) ==
    IF k = 0 \/ lo > hi
    THEN {<< >>}
    ELSE {<< >>} \cup
         UNION { { <<[pos |-> p, err |-> e]>> \o rest :
                        rest \in Plans(k - 1, p + 1, hi) } :
                 p \in lo..hi, e \in BusErrors }

\* The driver never looks at an error value, it only hands it on: a plan and
\* the plan with -EIO and -ENXIO exchanged give the same behaviour up to that
\* exchange.  One plan of each such pair is drawn, the one whose first fault
\* is -EIO.
FaultPlans(k, lo, hi) ==
    {plan \in Plans(k, lo, hi) : plan = << >> \/ plan[1].err = 0 - EIO}

\* the failed transfers of a bus log
Failed(l) == {i \in 1..Len(l) : l[i].k = "w" /\ l[i].res < 0}

----------------------------------------------------------------------------
(* State machine                                                           *)

\* What the stack slot of current_exposure may hold when imx283_set_ctrl
\* reads it: anything; one value below every exposure range and one above.
Uninit == {0, 2147483647}

\* the device structure the handlers work on, with the bus of this call and
\* the stack of this call
Dev(plan, uninit) ==
    [streaming |-> streaming, hflip_grabbed |-> hflip_grabbed,
     vflip_grabbed |-> vflip_grabbed, pm_usage |-> pm_usage,
     powered |-> powered, freq |-> freq, link_freq_idx |-> link_freq_idx,
     mode |-> mode, fmt_code |-> fmt_code, hmax |-> hmax, vmax |-> vmax,
     ctrl |-> ctrl, exp_range |-> exp_range, exp_def |-> exp_def,
     try_fmt |-> try_fmt, fmt |-> NoFmt, uninit |-> uninit,
     oob |-> 0, oops |-> FALSE, mutex |-> FALSE, lockdep |-> TRUE,
     log |-> << >>, n |-> 0, plan |-> plan, err |-> 0, rv |-> 0]

\* the handler has returned st: its fields become the state
Commit(st) ==
    /\ streaming' = st.streaming
    /\ hflip_grabbed' = st.hflip_grabbed
    /\ vflip_grabbed' = st.vflip_grabbed
    /\ pm_usage' = st.pm_usage
    /\ powered' = st.powered
    /\ freq' = st.freq
    /\ link_freq_idx' = st.link_freq_idx
    /\ mode' = st.mode
    /\ fmt_code' = st.fmt_code
    /\ hmax' = st.hmax
    /\ vmax' = st.vmax
    /\ ctrl' = st.ctrl
    /\ exp_range' = st.exp_range
    /\ exp_def' = st.exp_def
    /\ try_fmt' = st.try_fmt
    /\ log' = st.log
    /\ faults' = faults - Cardinality(Failed(st.log))

\* the operation op (with argument enable for set_stream) has returned st
Return(st, op, enable) ==
    /\ Commit(st)
    /\ last_op' = [op |-> op, enable |-> enable, was |-> streaming,
                   pm_was |-> pm_usage, ret |-> st.rv, locked |-> st.mutex]

\* a write of val to control id has returned st
ReturnCtrl(st, id, val) ==
    /\ Commit(st)
    /\ last_op' = [op |-> "s_ctrl", enable |-> FALSE, was |-> streaming,
                   pm_was |-> pm_usage, ret |-> st.rv, id |-> id, val |-> val]

IdleCalc == [fn |-> "none"]

IdleCdc == [fn |-> "none"]

\* the threads that call into the driver: one per user operation and the
\* one that runs the system sleep callbacks
Threads == {"stream", "ctrl", "fmt", "pm"}

\* no call in progress
IdleRun == [op |-> "none", pend |-> << >>, n |-> 0]

\* imx283->mutex free, no call in progress, nothing sent yet
IdleThr == [mutex |-> "none", run |-> [t \in Threads |-> IdleRun],
            calls |-> [t \in Threads |-> 0], last |-> "none"]

\* the earlier variant after imx283_probe: devm_kzalloc has cleared the
\* structure and pm_runtime_idle has powered the sensor off; bus holds the
\* transfers of the last call, listed the number of times the common list
\* was written completely since the last imx283_power_off, reset that a
\* power-off has cleared a flag that was set
IdleLeg == [common_regs_written |-> FALSE, streaming |-> FALSE,
            pm_usage |-> 0, powered |-> FALSE, suspended |-> FALSE,
            listed |-> 0, bus |-> << >>, rv |-> 0, op |-> "probe",
            was_written |-> FALSE, was_listed |-> 0, reset |-> FALSE]

IdleLf == [fw |-> << >>, drv |-> << >>, bitmap_in |-> 0, bitmap |-> 0,
           ret |-> 0, done |-> FALSE]

\* the state just after imx283_probe has returned st
Probed(st) ==
    /\ streaming = st.streaming
    /\ hflip_grabbed = st.hflip_grabbed
    /\ vflip_grabbed = st.vflip_grabbed
    /\ pm_usage = st.pm_usage
    /\ powered = st.powered
    /\ freq = st.freq
    /\ link_freq_idx = st.link_freq_idx
    /\ mode = st.mode
    /\ fmt_code = st.fmt_code
    /\ hmax = st.hmax
    /\ vmax = st.vmax
    /\ ctrl = st.ctrl
    /\ exp_range = st.exp_range
    /\ exp_def = st.exp_def
    /\ try_fmt = st.try_fmt

\* after imx283_probe: the input clock is 24 MHz, the last entry of
\* imx283_frequencies (the entries differ in their register values only);
\* the link frequency is either entry of link_frequencies
Init ==
    /\ \E lfi \in 0..(Len(link_frequencies) - 1) :
          Probed(ProbeState(Len(imx283_frequencies) - 1, lfi))
    /\ sys_suspended = FALSE
    /\ log = << >>
    /\ last_op = [op |-> "probe", enable |-> FALSE, was |-> FALSE,
                  pm_was |-> 0, ret |-> 0]
    /\ faults = MaxFaults
    /\ lf = IdleLf
    /\ calc = IdleCalc
    /\ cdc = IdleCdc
    /\ thr = IdleThr
    /\ leg = IdleLeg

\* the driver probed and left alone, for the functions verified on their own
DriverIdle ==
    /\ Probed(ProbeState(0, 0))
    /\ sys_suspended = FALSE
    /\ log = << >>
    /\ last_op = [op |-> "probe", enable |-> FALSE, was |-> FALSE,
                  pm_was |-> 0, ret |-> 0]
    /\ faults = 0

\* VIDIOC s_stream(1): imx283_set_stream(sd, 1)
StreamOn ==
    /\ ~sys_suspended
    /\ \E pm_err \in (IF powered THEN {0} ELSE {0, 0 - EIO}) :
       \E plan \in (IF streaming \/ pm_err # 0
                    THEN {<< >>}
                    ELSE FaultPlans(faults, 1, StartTransfers(link_freq_idx))) :
       \E u \in (IF streaming \/ pm_err # 0 THEN {0} ELSE Uninit) :
          Return(imx283_set_stream(Dev(plan, u), TRUE, pm_err), "set_stream", TRUE)
    /\ UNCHANGED <<sys_suspended, fn_vars>>

\* VIDIOC s_stream(0): imx283_set_stream(sd, 0)
StreamOff ==
    /\ ~sys_suspended
    /\ \E plan \in (IF streaming THEN FaultPlans(faults, 1, 1) ELSE {<< >>}) :
          Return(imx283_set_stream(Dev(plan, 0), FALSE, 0), "set_stream", FALSE)
    /\ UNCHANGED <<sys_suspended, fn_vars>>

\* system sleep: imx283_suspend(dev)
Suspend ==
    /\ ~sys_suspended
    /\ \E plan \in (IF streaming THEN FaultPlans(faults, 1, 1) ELSE {<< >>}) :
          Return(imx283_suspend(Dev(plan, 0)), "suspend", FALSE)
    /\ sys_suspended' = TRUE
    /\ UNCHANGED fn_vars

\* system wake-up: imx283_resume(dev)
Resume ==
    /\ sys_suspended
    /\ \E plan \in (IF streaming
                    THEN FaultPlans(faults, 1, StartTransfers(link_freq_idx) + 1)
                    ELSE {<< >>}) :
       \E u \in (IF streaming THEN Uninit ELSE {0}) :
          Return(imx283_resume(Dev(plan, u)), "resume", FALSE)
    /\ sys_suspended' = FALSE
    /\ UNCHANGED fn_vars

Next == StreamOn \/ StreamOff \/ Suspend \/ Resume

Spec == Init /\ [][Next]_vars

----------------------------------------------------------------------------
(* Control writes                                                          *)

\* the controls a user writes in SpecCtrl
UserCtrlIds ==
    {"VBLANK", "HBLANK", "EXPOSURE", "ANALOGUE_GAIN", "DIGITAL_GAIN",
     "TEST_PATTERN"}

\* values a user writes: the upper end of the VBLANK range, the lower end of
\* the HBLANK range (the defaults lie inside), both ends of the current
\* exposure range and of the gain ranges, test pattern off and the first
\* pattern
UserCtrlValues(id) ==
    CASE id = "VBLANK" -> {IMX283_VMAX_MAX - mode.height}
      [] id = "HBLANK" -> {0}
      [] id = "EXPOSURE" -> {exp_range.min, exp_range.max}
      [] id = "ANALOGUE_GAIN" -> {0, IMX283_ANA_GAIN_MAX}
      [] id = "DIGITAL_GAIN" -> {0, IMX283_DGTL_GAIN_MAX}
      [] id = "TEST_PATTERN" -> {0, 1}

InitCtrl ==
    /\ DriverIdle
    /\ lf = IdleLf
    /\ calc = IdleCalc
    /\ cdc = IdleCdc
    /\ thr = IdleThr
    /\ leg = IdleLeg

\* VIDIOC_S_CTRL: the control framework calls imx283_set_ctrl if the value
\* changes; only the VBLANK branch reads the uninitialised variable
SetCtrl ==
    /\ ~sys_suspended
    /\ \E id \in UserCtrlIds :
       \E val \in UserCtrlValues(id) :
       \E u \in (IF id = "VBLANK" /\ ctrl[id] # val THEN Uninit ELSE {0}) :
          ReturnCtrl(v4l2_ctrl_s_ctrl(Dev(<< >>, u), id, val), id, val)
    /\ UNCHANGED <<sys_suspended, fn_vars>>

NextCtrl == SetCtrl \/ StreamOn \/ StreamOff

SpecCtrl == InitCtrl /\ [][NextCtrl]_vars

----------------------------------------------------------------------------
(* Pad format operations and flip writes                                   *)

\* VIDIOC_S_CTRL of a flip control: try_or_set_cluster refuses a grabbed
\* control with -EBUSY before s_ctrl is called
v4l2_s_ctrl(st, id, val) ==
    IF (id = "HFLIP" /\ st.hflip_grabbed) \/ (id = "VFLIP" /\ st.vflip_grabbed)
    THEN [st EXCEPT !.rv = 0 - 16]
    ELSE v4l2_ctrl_s_ctrl(st, id, val)

\* the codes a user asks for: two of the 12-bit group, one of the 10-bit
\* group
FmtCodes == {codes[1], codes[2], codes[5]}

\* the sizes a user asks for: between the modes, half-way between the two
\* 12-bit modes, half-way between the two 10-bit modes, and an exact size
FmtSizes ==
    { <<5000, 3000>>, <<4176, 2746>>, <<5568, 3379>>, <<5568, 3094>> }

\* a format operation with inputs arg has returned st
ReturnFmt(st, op, arg) ==
    /\ Commit(st)
    /\ last_op' = [op |-> op, enable |-> FALSE, was |-> streaming,
                   pm_was |-> pm_usage, ret |-> st.rv, arg |-> arg,
                   fmt |-> st.fmt, mode_was |-> mode, oops |-> st.oops,
                   locked |-> st.mutex, lockdep |-> st.lockdep]

\* no call has ended in a kernel oops
Alive == ~("oops" \in DOMAIN last_op /\ last_op.oops)

\* what a read of codes[ARRAY_SIZE(codes)] may yield when the code looked
\* up is not in the table: anything; one value that is no code of the table
\* and one that is
OutOfBounds(code) ==
    IF get_format_code_i(code) < Len(codes) THEN {0} ELSE {0, codes[5]}

\* VIDIOC_SUBDEV_S_FMT with the inputs drawn from the given sets; only the
\* ACTIVE format reaches imx283_set_ctrl and its uninitialised variable
SetFormatOf(whichs, cs, sizes) ==
    /\ ~sys_suspended
    /\ Alive
    /\ \E which \in whichs : \E code \in cs : \E sz \in sizes :
       \E u \in (IF which = "TRY" THEN {0} ELSE Uninit) :
       \E g \in OutOfBounds(code) :
          ReturnFmt(imx283_set_pad_format([Dev(<< >>, u) EXCEPT !.oob = g],
                                          which, code, sz[1], sz[2]),
                    "set_fmt",
                    [which |-> which, code |-> code, width |-> sz[1],
                     height |-> sz[2]])
    /\ UNCHANGED <<sys_suspended, fn_vars>>

SetFormat == SetFormatOf({"TRY", "ACTIVE"}, FmtCodes, FmtSizes)

\* VIDIOC_SUBDEV_G_FMT
GetFormat ==
    /\ ~sys_suspended
    /\ Alive
    /\ \E which \in {"TRY", "ACTIVE"} :
       \E g \in OutOfBounds(IF which = "TRY" THEN try_fmt.code ELSE fmt_code) :
          ReturnFmt(imx283_get_pad_format([Dev(<< >>, 0) EXCEPT !.oob = g], which),
                    "get_fmt",
                    [which |-> which,
                     code |-> IF which = "TRY" THEN try_fmt.code ELSE fmt_code])
    /\ UNCHANGED <<sys_suspended, fn_vars>>

\* VIDIOC_SUBDEV_ENUM_MBUS_CODE
EnumCode ==
    /\ ~sys_suspended
    /\ Alive
    /\ \E index \in 0..2 :
          ReturnFmt(imx283_enum_mbus_code(Dev(<< >>, 0), index), "enum_code",
                    [index |-> index,
                     code |-> IF index < 2 THEN codes[index * 4 + 1] ELSE 0])
    /\ UNCHANGED <<sys_suspended, fn_vars>>

\* VIDIOC_S_CTRL of V4L2_CID_HFLIP or V4L2_CID_VFLIP
SetFlip ==
    /\ ~sys_suspended
    /\ \E id \in {"HFLIP", "VFLIP"} : \E val \in {0, 1} :
          ReturnCtrl(v4l2_s_ctrl(Dev(<< >>, 0), id, val), id, val)
    /\ UNCHANGED <<sys_suspended, fn_vars>>

NextFmt == SetFormat \/ GetFormat \/ EnumCode \/ SetFlip

SpecFmt == InitCtrl /\ [][NextFmt]_vars

\* a pixel code that is not in codes[]: MEDIA_BUS_FMT_Y8_1X8 (0x2001)
UnknownCode == 8193

\* VIDIOC_SUBDEV_S_FMT with a code of each group and a code that is not in
\* the table
SetAnyFormat ==
    SetFormatOf({"TRY", "ACTIVE"}, {codes[1], codes[5], UnknownCode},
                {<<5568, 3664>>, <<2784, 1828>>})

\* VIDIOC_SUBDEV_ENUM_FRAME_SIZE
EnumFrameSize ==
    /\ ~sys_suspended
    /\ Alive
    /\ \E code \in {codes[1], codes[2], codes[5], UnknownCode} :
       \E index \in 0..2 :
          ReturnFmt(imx283_enum_frame_size(Dev(<< >>, 0), code, index),
                    "enum_size", [index |-> index, code |-> code])
    /\ UNCHANGED <<sys_suspended, fn_vars>>

\* open of the sub-device node
Open ==
    /\ ~sys_suspended
    /\ Alive
    /\ ReturnFmt(imx283_open_fh(Dev(<< >>, 0)), "open",
                 [code |-> MEDIA_BUS_FMT_SRGGB12_1X12])
    /\ UNCHANGED <<sys_suspended, fn_vars>>

NextCode == SetAnyFormat \/ GetFormat \/ EnumCode \/ EnumFrameSize \/ Open

SpecCode == InitCtrl /\ [][NextCode]_vars

----------------------------------------------------------------------------
(* The test pattern generator on a faulty bus                              *)

\* imx283_update_test_pattern as imx283_set_ctrl calls it for
\* V4L2_CID_TEST_PATTERN once the device is in use, for the indexes of the
\* menu and two beyond it
UpdateTestPattern ==
    /\ ~sys_suspended
    /\ pm_usage > 0
    /\ powered
    /\ \E index \in 0..(Len(imx283_tpg_val) + 1) :
       \E plan \in FaultPlans(faults, 1, 2) :
          ReturnCtrl(imx283_update_test_pattern(Dev(plan, 0), index),
                     "TEST_PATTERN", index)
    /\ UNCHANGED <<sys_suspended, fn_vars>>

NextTpg == UpdateTestPattern \/ StreamOn \/ StreamOff

SpecTpg == Init /\ [][NextTpg]_vars

----------------------------------------------------------------------------
(* Blanking and flip writes while streaming                                *)

\* the full-size mode of either catalog is made the active one
SetActiveFormat ==
    SetFormatOf({"ACTIVE"}, {codes[1], codes[5]}, {<<5568, 3664>>, <<2784, 1828>>})

\* VIDIOC_S_CTRL of V4L2_CID_HBLANK: both ends of its range and a value
\* near the defaults
SetHBlank ==
    /\ ~sys_suspended
    /\ \E val \in {0, 100, IMX283_HMAX_MAX} :
          ReturnCtrl(v4l2_s_ctrl(Dev(<< >>, 0), "HBLANK", val), "HBLANK", val)
    /\ UNCHANGED <<sys_suspended, fn_vars>>

NextBlank == SetActiveFormat \/ SetHBlank \/ SetFlip \/ StreamOn \/ StreamOff

SpecBlank == InitCtrl /\ [][NextBlank]_vars

\* VIDIOC_S_CTRL of V4L2_CID_VBLANK: both ends of the range
\* imx283_set_framing_limits gives the control for the active mode
SetVBlank ==
    /\ ~sys_suspended
    /\ \E val \in {mode.min_VMAX - mode.height, IMX283_VMAX_MAX - mode.height} :
       \E u \in (IF ctrl["VBLANK"] # val THEN Uninit ELSE {0}) :
          ReturnCtrl(v4l2_s_ctrl(Dev(<< >>, u), "VBLANK", val), "VBLANK", val)
    /\ UNCHANGED <<sys_suspended, fn_vars>>

\* VIDIOC_SUBDEV_G_SELECTION
GetSelection ==
    /\ ~sys_suspended
    /\ Alive
    /\ \E target \in {"CROP", "NATIVE_SIZE", "CROP_DEFAULT", "CROP_BOUNDS",
                       "COMPOSE"} :
       \E which \in {"TRY", "ACTIVE"} :
          ReturnFmt(imx283_get_selection(Dev(<< >>, 0), target, which),
                    "get_selection", [which |-> which, target |-> target])
    /\ UNCHANGED <<sys_suspended, fn_vars>>

\* VIDIOC_SUBDEV_S_FMT with a code of the table and a code that is not
SetKnownOrUnknownFormat ==
    SetFormatOf({"TRY", "ACTIVE"}, {codes[5], UnknownCode},
                {<<2784, 1828>>})

\* the calls that take imx283->mutex, with transfers that may fail
NextLock ==
    \/ Open
    \/ GetFormat
    \/ SetKnownOrUnknownFormat
    \/ GetSelection
    \/ (Alive /\ StreamOn)
    \/ (Alive /\ StreamOff)

SpecLock == Init /\ [][NextLock]_vars

NextTry ==
    \/ SetAnyFormat
    \/ (Alive /\ StreamOn)
    \/ (Alive /\ StreamOff)

SpecTry == InitCtrl /\ [][NextTry]_vars

NextFrame == SetActiveFormat \/ SetHBlank \/ SetVBlank \/ StreamOn \/ StreamOff

SpecFrame == InitCtrl /\ [][NextFrame]_vars

----------------------------------------------------------------------------
(* v4l2_link_freq_to_bitmap on drawn inputs                                *)

LfFreqs == {MHZ(360), MHZ(720), MHZ(900)}

SeqsUpTo(S, n) == UNION {[1..k -> S] : k \in 0..n}

\* what *bitmap may hold before the call
LfGarbage == {0, 1, Pow2(MaxDrv) - 1}

InitLF ==
    /\ DriverIdle
    /\ calc = IdleCalc
    /\ cdc = IdleCdc
    /\ thr = IdleThr
    /\ leg = IdleLeg
    /\ \E fw \in SeqsUpTo(LfFreqs, MaxFw), drv \in SeqsUpTo(LfFreqs, MaxDrv),
          b \in LfGarbage :
          lf = [fw |-> fw, drv |-> drv, bitmap_in |-> b, bitmap |-> b,
                ret |-> 0, done |-> FALSE]

LinkFreqToBitmap ==
    /\ ~lf.done
    /\ LET r == v4l2_link_freq_to_bitmap(lf.fw, lf.drv, lf.bitmap)
       IN lf' = [lf EXCEPT !.bitmap = r.bitmap, !.ret = r.ret, !.done = TRUE]
    /\ UNCHANGED <<drv_vars, sys_suspended, calc, cdc, thr, leg>>

NextLF == LinkFreqToBitmap

SpecLF == InitLF /\ [][NextLF]_vars

----------------------------------------------------------------------------
(* Probe on drawn endpoint properties                                      *)

\* the link frequencies a device tree may declare
EpFreqs == {MHZ(360), MHZ(720), MHZ(900)}

\* the data lane counts a device tree may declare
EpLanes == {2, 4}

\* before imx283_probe: the endpoint properties are drawn; the device fields
\* are not read until probe has set them
InitEp ==
    /\ DriverIdle
    /\ calc = IdleCalc
    /\ cdc = IdleCdc
    /\ thr = IdleThr
    /\ leg = IdleLeg
    /\ \E lanes \in EpLanes, fw \in SeqsUpTo(EpFreqs, MaxFw) :
          lf = [fw |-> fw, lanes |-> lanes, ret |-> 0, link_freq_idx |-> 0,
                done |-> FALSE]

\* imx283_probe as far as the endpoint decides it: it fails if
\* imx283_parse_endpoint fails, and the link frequency found is kept
ProbeEndpoint ==
    /\ ~lf.done
    /\ LET r == imx283_parse_endpoint(lf.lanes, lf.fw)
       IN /\ lf' = [lf EXCEPT !.ret = r.ret, !.link_freq_idx = r.link_freq_idx,
                              !.done = TRUE]
          /\ IF r.ret = 0
             THEN Return(ProbeState(0, r.link_freq_idx), "probe", FALSE)
             ELSE UNCHANGED drv_vars
    /\ UNCHANGED <<sys_suspended, calc, cdc, thr, leg>>

\* the device exists
EpProbed == lf.done /\ lf.ret = 0

NextEp == ProbeEndpoint \/ (EpProbed /\ StreamOn) \/ (EpProbed /\ StreamOff)

SpecEp == InitEp /\ [][NextEp]_vars

----------------------------------------------------------------------------
(* The exposure calculators on drawn inputs                                *)

\* the modes of both catalogs
CalcModes ==
    {supported_modes_12bit[i] : i \in 1..Len(supported_modes_12bit)}
        \cup {supported_modes_10bit[i] : i \in 1..Len(supported_modes_10bit)}

\* vertical blanking values of the control range that imx283_set_framing_limits
\* gives mode m: both ends, the default, and the two values around the frame
\* length at which max_shr reaches 0xFFFF
CalcVBlank(m) ==
    {m.min_VMAX - m.height, m.default_VMAX - m.height, 65539 - m.height,
     65540 - m.height, IMX283_VMAX_MAX - m.height}

\* values imx283->hmax takes in mode m: the default of
\* imx283_set_framing_limits and what the HBLANK case stores for both ends of
\* the HBLANK range
CalcHmax(m) ==
    {m.default_HMAX,
     MulDiv(m.width, 72000000, PixelRate(m)) % 65536,
     MulDiv(m.width + IMX283_HMAX_MAX, 72000000, PixelRate(m)) % 65536}

\* the arguments the VBLANK branch of imx283_set_ctrl passes for mode m
CalcDriverTimings(m) ==
    {[h |-> u64(h), v |-> u64(m.height + vb), svr |-> u64(0),
      offset |-> u64(209), min_shr |-> u64(m.min_SHR), driver |-> TRUE] :
        h \in CalcHmax(m), vb \in CalcVBlank(m)}

\* arguments other than the driver's: SVR = 1, and a frame shorter than the
\* mode's min_shr with an offset that is a multiple of the line length
CalcOtherTimings ==
    {[h |-> u64(1000), v |-> u64(5000), svr |-> u64(1),
      offset |-> u64(209), min_shr |-> u64(12), driver |-> FALSE],
     [h |-> u64(100), v |-> u64(20), svr |-> u64(0),
      offset |-> u64(200), min_shr |-> u64(12), driver |-> FALSE]}

CalcTimings == UNION {CalcDriverTimings(m) : m \in CalcModes} \cup CalcOtherTimings

\* SHR values for timing t: both ends of the valid range and their inner
\* neighbours
CalcShrs(t) ==
    {t.min_shr, u64_add(t.min_shr, u64(1)),
     u64_sub(calculate_max_shr(t.v, t.svr), u64(1)),
     calculate_max_shr(t.v, t.svr)}

\* uint32_t exposure values: 0, 1, the control's first minimum and default,
\* and 0xFFFFFFFF
CalcExposures ==
    {u64(0), u64(1), u64(IMX283_EXPOSURE_MIN), u64(IMX283_EXPOSURE_DEFAULT),
     << 255, 255, 255, 255, 0, 0, 0, 0 >>}

InitCalc ==
    /\ DriverIdle
    /\ lf = IdleLf
    /\ cdc = IdleCdc
    /\ thr = IdleThr
    /\ leg = IdleLeg
    /\ \E t \in CalcTimings :
       \E shr \in CalcShrs(t), e \in CalcExposures :
          calc = [fn |-> "none", h |-> t.h, v |-> t.v, svr |-> t.svr,
                  offset |-> t.offset, min_shr |-> t.min_shr,
                  driver |-> t.driver, shr |-> shr, exposure |-> e,
                  min |-> u64(0), max |-> u64(0), shr_out |-> u64(0)]

\* calculate_min_max_v4l2_cid_exposure(hmax, vmax, min_shr, svr, offset,
\* &min_exposure, &max_exposure)
CalcMinMax ==
    /\ calc.fn = "none"
    /\ LET b == calculate_min_max_v4l2_cid_exposure(calc.h, calc.v, calc.min_shr,
                                                    calc.svr, calc.offset)
       IN calc' = [calc EXCEPT !.fn = "min_max", !.min = b.min, !.max = b.max]
    /\ UNCHANGED <<drv_vars, sys_suspended, lf, cdc, thr, leg>>

\* exposure = calculate_v4l2_cid_exposure(hmax, vmax, shr, svr, offset)
CalcExposure ==
    /\ calc.fn = "none"
    /\ calc' = [calc EXCEPT
                  !.fn = "exposure",
                  !.exposure = calculate_v4l2_cid_exposure(calc.h, calc.v, calc.shr,
                                                           calc.svr, calc.offset)]
    /\ UNCHANGED <<drv_vars, sys_suspended, lf, cdc, thr, leg>>

\* shr = calculate_shr(exposure, hmax, vmax, svr, offset), of the exposure
\* drawn or of the one calculate_v4l2_cid_exposure returned; the uint32_t
\* parameters take the low 32 bits of their arguments
CalcShr ==
    /\ calc.fn \in {"none", "exposure"}
    /\ calc' = [calc EXCEPT
                  !.fn = IF calc.fn = "none" THEN "shr" ELSE "round_trip",
                  !.shr_out = calculate_shr(u32(calc.exposure), u32(calc.h), calc.v,
                                            u32(calc.svr), u32(calc.offset))]
    /\ UNCHANGED <<drv_vars, sys_suspended, lf, cdc, thr, leg>>

NextCalc == CalcMinMax \/ CalcExposure \/ CalcShr

SpecCalc == InitCalc /\ [][NextCalc]_vars

----------------------------------------------------------------------------
(* The register codec on drawn inputs                                      *)

\* HMAX, address 0x3036
CdcAddr == RegAddr(IMX283_REG_HMAX)

\* tokens of address CdcAddr with every value of the width field that the
\* CCI_REG macros produce (1, 2, 3, 4, 8), the values in between and the
\* values 0, 9 and 15 outside them, untagged and tagged little-endian
CdcTokens ==
    {le * CCI_REG_LE + w * CCI_REG_WIDTH_SHIFT + CdcAddr :
        w \in (0..9) \cup {15}, le \in {0, 1}}

\* the low `width` bytes of 0x0102030405060708 (the value itself from width
\* 8 on), and the value itself
CdcValues(reg) ==
    {[i \in 1..8 |-> IF i <= RegWidth(reg) THEN 9 - i ELSE 0],
     << 8, 7, 6, 5, 4, 3, 2, 1 >>}

\* what the device returns for a read
CdcData == {<< 1, 2, 3, 4, 5, 6, 7, 8 >>}

\* the outcomes of a write of more than 8 value bytes
CdcUb == [g : {0, 255}, smash : BOOLEAN]

InitCodec ==
    /\ DriverIdle
    /\ lf = IdleLf
    /\ calc = IdleCalc
    /\ \E reg \in CdcTokens, has_err \in BOOLEAN :
       \E val \in CdcValues(reg), e \in (IF has_err THEN {0, 0 - EIO} ELSE {0}) :
          cdc = [fn |-> "none", reg |-> reg, val |-> val, has_err |-> has_err,
                 err_in |-> e, err |-> e, bus |-> << >>, overrun |-> 0,
                 crashed |-> FALSE, rv |-> 0, out |-> u64(0),
                 results |-> << >>]
    /\ thr = IdleThr
    /\ leg = IdleLeg

\* cci_write(imx283, reg, val, err)
CdcWrite ==
    /\ cdc.fn = "none"
    /\ \E fault \in {0} \cup BusErrors :
       \E ub \in (IF RegWidth(cdc.reg) > 8 THEN CdcUb ELSE {[g |-> 0, smash |-> FALSE]}) :
          cdc' = [cci_write_wire(cdc, cdc.reg, cdc.val, cdc.has_err, fault, ub)
                    EXCEPT !.fn = "write"]
    /\ UNCHANGED <<drv_vars, sys_suspended, lf, calc, thr, leg>>

\* the batch written: (reg, val) at three consecutive addresses
CdcRegs == << [reg |-> cdc.reg, val |-> cdc.val],
              [reg |-> cdc.reg + 1, val |-> cdc.val],
              [reg |-> cdc.reg + 2, val |-> cdc.val] >>

\* cci_multi_reg_write(imx283, regs, 3, err); results are the faults of the
\* three sends
CdcMultiWrite ==
    /\ cdc.fn = "none"
    /\ cdc.has_err
    /\ RegWidth(cdc.reg) <= 8
    /\ \E results \in [1..3 -> {0, 0 - EIO, 0 - ENXIO}] :
          cdc' = [cci_multi_reg_write_wire(cdc, CdcRegs, results,
                                           [g |-> 0, smash |-> FALSE], 1)
                    EXCEPT !.fn = "multi_write", !.results = results]
    /\ UNCHANGED <<drv_vars, sys_suspended, lf, calc, thr, leg>>

\* the list written by the earlier variant: a register, a pause, two
\* registers
CdcRegList == << [address |-> RegAddr(cdc.reg), val |-> cdc.val[1]],
                 [address |-> 65534, val |-> 1],
                 [address |-> RegAddr(cdc.reg) + 1, val |-> cdc.val[1]],
                 [address |-> RegAddr(cdc.reg) + 2, val |-> cdc.val[1]] >>

\* imx283_write_regs(imx283, regs, 4) of the earlier variant; results are
\* what i2c_master_send returns for the entries: 3 bytes sent, fewer, or an
\* error
CdcWriteRegs ==
    /\ cdc.fn = "none"
    /\ ~cdc.has_err
    /\ RegWidth(cdc.reg) = 1
    /\ \E results \in [1..4 -> {3, 1, 0 - ENXIO}] :
          cdc' = [imx283_write_regs(cdc, CdcRegList, results, 1)
                    EXCEPT !.fn = "write_regs", !.results = results]
    /\ UNCHANGED <<drv_vars, sys_suspended, lf, calc, thr, leg>>

\* cci_read(imx283, reg, &val, err) from a device that answers with data
CdcRead ==
    /\ cdc.fn = "none"
    /\ \E ret \in {2, 1, 0 - ENXIO}, data \in CdcData :
          cdc' = [cci_read_wire(cdc, cdc.reg, cdc.has_err, ret, data)
                    EXCEPT !.fn = "read"]
    /\ UNCHANGED <<drv_vars, sys_suspended, lf, calc, thr, leg>>

\* cci_read of the register just written with success, from a device that
\* answers with the value bytes it was sent
CdcReadBack ==
    /\ cdc.fn = "write"
    /\ ~cdc.crashed
    /\ cdc.rv = 0
    /\ RegWidth(cdc.reg) \in 1..8
    /\ cdc' = [cci_read_wire(cdc, cdc.reg, cdc.has_err, 2,
                             SubSeq(cdc.bus[Len(cdc.bus)].buf, 3,
                                    2 + RegWidth(cdc.reg)))
                 EXCEPT !.fn = "read_back"]
    /\ UNCHANGED <<drv_vars, sys_suspended, lf, calc, thr, leg>>

NextCodec ==
    CdcWrite \/ CdcMultiWrite \/ CdcWriteRegs \/ CdcRead \/ CdcReadBack

SpecCodec == InitCodec /\ [][NextCodec]_vars

----------------------------------------------------------------------------
(* Properties of the streaming state machine                               *)

\* the last operation was set_stream(1) called in Standby
IsStart == last_op.op = "set_stream" /\ last_op.enable /\ ~last_op.was

\* the last operation ran imx283_start_streaming
RanStart ==
    /\ \/ IsStart
       \/ last_op.op = "resume" /\ last_op.was
    /\ log # << >>

FirstFailed(l) == CHOOSE i \in Failed(l) : \A j \in Failed(l) : i <= j

\* C1: when a register write of the start sequence fails, set_stream(1)
\* returns a non-zero error and the device is still in Standby.
C1_FailedWriteFailsStart ==
    (IsStart /\ Failed(log) # {}) => (last_op.ret # 0 /\ ~streaming)

\* C2: after the first failing write of a start sequence no further register
\* write of that sequence goes out on the bus.
C2_NoWriteAfterFailure ==
    (IsStart /\ Failed(log) # {}) =>
        \A i \in 1..Len(log) : i > FirstFailed(log) => log[i].k # "w"

MdselRegs == {IMX283_REG_MDSEL1, IMX283_REG_MDSEL2, IMX283_REG_MDSEL3,
              IMX283_REG_MDSEL4}

\* the registers of the steps after the readout mode select
LaterStepRegs ==
    {IMX283_REG_SVR, IMX283_REG_Y_OUT_SIZE, IMX283_REG_WRITE_VSIZE,
     IMX283_REG_OB_SIZE_V, IMX283_REG_HTRIMMING, IMX283_REG_HTRIMMING_START,
     IMX283_REG_HTRIMMING_END, IMX283_REG_HMAX, IMX283_REG_VMAX,
     IMX283_REG_SHR, IMX283_REG_EBD_X_OUT_SIZE, IMX283_REG_ANALOG_GAIN,
     IMX283_REG_DIGITAL_GAIN, IMX283_REG_TPG_CTRL, IMX283_REG_TPG_PAT}

FailedMdsel == {i \in Failed(log) : log[i].reg \in MdselRegs}

\* C3: when an MDSEL1..MDSEL4 write fails during a start, no register of a
\* later step is written, set_stream returns the error injected at the MDSEL
\* write, and the device stays in Standby.
C3_MdselFailureAborts ==
    (IsStart /\ FailedMdsel # {}) =>
        /\ \A i \in 1..Len(log) :
              log[i].k = "w" => log[i].reg \notin LaterStepRegs
        /\ last_op.ret \in {log[i].res : i \in FailedMdsel}
        /\ ~streaming

C3_Witness ==
    /\ IsStart
    /\ \E i \in FailedMdsel :
          log[i].reg = IMX283_REG_MDSEL2 /\ log[i].res = 0 - EIO
    /\ last_op.ret = 0 - EIO

\* C4: a start in which a write failed returns the error of the first write
\* that failed; nothing later replaces or clears it.
C4_FirstFailureWins ==
    (IsStart /\ Failed(log) # {}) => last_op.ret = log[FirstFailed(log)].res

\* C5: between operations HFlip and VFlip are grabbed exactly when the device
\* is Active.
C5_FlipsGrabbedIffActive ==
    /\ hflip_grabbed = streaming
    /\ vflip_grabbed = streaming

\* C6: set_stream(enable) called in the state it asks for returns 0, writes
\* no register, takes or drops no power reference and changes neither the
\* stream state nor the flip grabs.
C6_RedundantSetStreamIsNoOp ==
    [][(last_op'.op = "set_stream" /\ last_op'.enable = streaming) =>
          /\ last_op'.ret = 0
          /\ log' = << >>
          /\ pm_usage' = pm_usage
          /\ powered' = powered
          /\ streaming' = streaming
          /\ hflip_grabbed' = hflip_grabbed
          /\ vflip_grabbed' = vflip_grabbed]_vars

C6_Witness ==
    /\ last_op.op = "set_stream"
    /\ last_op.enable
    /\ last_op.was
    /\ streaming

\* C7: set_stream(0) in Active issues exactly one register write, the standby
\* write to 0x3000, and whether it succeeds or not the device is in Standby,
\* the power reference is dropped and the flips are released.
C7_StopAlwaysStops ==
    [][(last_op'.op = "set_stream" /\ ~last_op'.enable /\ streaming) =>
          /\ Len(log') = 1
          /\ log'[1].k = "w"
          /\ RegAddr(log'[1].reg) = 12288
          /\ log'[1].val = IMX283_STBLOGIC
          /\ ~streaming'
          /\ pm_usage' = pm_usage - 1
          /\ (pm_usage' = 0 => ~powered')
          /\ ~hflip_grabbed'
          /\ ~vflip_grabbed']_vars

C7_Witness ==
    /\ last_op.op = "set_stream"
    /\ ~last_op.enable
    /\ last_op.was
    /\ Failed(log) = {1}
    /\ ~streaming
    /\ pm_usage = 0

\* what a bus event is compared by: the register of a write, the minimum of a
\* sleep
EventKey(e) == IF e.k = "w" THEN <<"w", e.reg>> ELSE <<"sleep", e.min>>

W(reg) == <<"w", reg>>

RegsOf(regs) == [i \in 1..Len(regs) |-> W(regs[i].reg)]

\* the order of a start up to the embedded-data disable
StartOrder(f, lfi, m) ==
    << W(IMX283_REG_STANDBY) >>
    \o RegsOf(imx283_frequencies[f + 1].regs)
    \o << W(IMX283_REG_PLSTMG08), W(IMX283_REG_PLSTMG02), W(IMX283_REG_STBPL) >>
    \o RegsOf(link_freq_reglist(lfi))
    \o << <<"sleep", 1000>>, W(IMX283_REG_STANDBY), <<"sleep", 19000>> >>
    \o << W(IMX283_REG_CLAMP), W(IMX283_REG_XMSTA), W(IMX283_REG_SYNCDRV) >>
    \o << W(IMX283_REG_MDSEL1), W(IMX283_REG_MDSEL2), W(IMX283_REG_MDSEL3),
          W(IMX283_REG_MDSEL4) >>
    \o (IF m.mode = IMX283_MODE_1S
        THEN << W(IMX283_REG_MDSEL7), W(IMX283_REG_MDSEL18) >>
        ELSE << >>)
    \o << W(IMX283_REG_SVR), W(IMX283_REG_Y_OUT_SIZE), W(IMX283_REG_WRITE_VSIZE),
          W(IMX283_REG_OB_SIZE_V), W(IMX283_REG_HTRIMMING),
          W(IMX283_REG_HTRIMMING_START), W(IMX283_REG_HTRIMMING_END) >>
    \o << W(IMX283_REG_HMAX), W(IMX283_REG_VMAX), W(IMX283_REG_SHR) >>
    \o << W(IMX283_REG_EBD_X_OUT_SIZE) >>

\* the registers the control replay writes
ReplayRegs == {IMX283_REG_VMAX, IMX283_REG_HMAX, IMX283_REG_SHR,
               IMX283_REG_ANALOG_GAIN, IMX283_REG_DIGITAL_GAIN,
               IMX283_REG_TPG_CTRL, IMX283_REG_TPG_PAT}

\* position of the activate write in the order of a start
ActivateAt(f, lfi) ==
    1 + Len(imx283_frequencies[f + 1].regs) + 3 + Len(link_freq_reglist(lfi)) + 2

\* C8: in a start in which every write succeeds the bus sees, in this order,
\* the standby cancel, the PLL profile, PLSTMG08, PLSTMG02, the PLL enable,
\* the MIPI timing of the link frequency, the first sleep, the activate
\* write, the second sleep, clamp and sync, the readout mode, the sizes and
\* trims, the default HMAX/VMAX/SHR, the embedded-data disable and only then
\* the control replay; the device is Active once all of it is out.
C8_StartOrder ==
    (RanStart /\ Failed(log) = {}) =>
        LET order == StartOrder(freq, link_freq_idx, mode)
            n == Len(order)
            act == ActivateAt(freq, link_freq_idx)
        IN /\ Len(log) > n
           /\ \A i \in 1..n : EventKey(log[i]) = order[i]
           /\ log[1].val = IMX283_STBLOGIC + IMX283_STBDV
           /\ log[act].val = IMX283_ACTIVE
           /\ log[n].val = 0
           /\ \A i \in (n + 1)..Len(log) :
                 log[i].k = "w" /\ log[i].reg \in ReplayRegs
           /\ streaming
           /\ last_op.ret = 0

C8_Witness ==
    /\ IsStart
    /\ Failed(log) = {}
    /\ link_freq_idx = 1
    /\ Len(log) > Len(StartOrder(freq, link_freq_idx, mode))
    /\ streaming

----------------------------------------------------------------------------
(* Properties of v4l2_link_freq_to_bitmap                                  *)

\* the firmware and the driver list have a frequency in common
LfCommon == \E i \in 1..Len(lf.fw), j \in 1..Len(lf.drv) : lf.fw[i] = lf.drv[j]

\* C9: the helper returns -ENODATA exactly for an empty firmware list,
\* -ENOENT exactly for a non-empty firmware list that shares no frequency
\* with the driver list, and 0 otherwise.
C9_LinkFreqReturn ==
    lf.done =>
        /\ (lf.ret = 0 - ENODATA) <=> (Len(lf.fw) = 0)
        /\ (lf.ret = 0 - ENOENT) <=> (Len(lf.fw) # 0 /\ ~LfCommon)
        /\ (lf.ret = 0) <=> (Len(lf.fw) # 0 /\ LfCommon)

C9_Witness ==
    /\ lf.done
    /\ lf.ret = 0 - ENOENT
    /\ Len(lf.fw) = 2
    /\ Len(lf.drv) = 2

\* position j of the driver list holds a frequency the firmware declares
LfMatches(j) ==
    /\ j < Len(lf.drv)
    /\ \E i \in 1..Len(lf.fw) : lf.fw[i] = lf.drv[j + 1]

\* position j is the first one of the driver list with its frequency
LfFirstOfItsFreq(j) == \A k \in 0..(j - 1) : lf.drv[k + 1] # lf.drv[j + 1]

LfBits == 0..MaxDrv

----------------------------------------------------------------------------
(* Properties of the exposure calculators                                  *)

\* vmax * (svr + 1) of the drawn timing
CalcFrame == u64_mul(calc.v, u64_add(calc.svr, u64(1)))

\* a <= b
u64_leq(a, b) == ~u64_less(b, a)

\* offset div hmax and the remainder's sign, as integers
CalcOffsetDiv == u64_int(calc.offset) \div u64_int(calc.h)

CalcOffsetCeil ==
    CalcOffsetDiv + (IF u64_int(calc.offset) % u64_int(calc.h) = 0 THEN 0 ELSE 1)

\* C12: for every mode of the 12-bit and 10-bit catalogs and every VBlank
\* value of the mode's control range, the bounds the VBlank-triggered
\* recompute produces satisfy minExposure <= maxExposure.
C12_MinExposureAtMostMax ==
    (calc.fn = "min_max" /\ calc.driver) => u64_leq(calc.min, calc.max)

C12_Witness ==
    /\ calc.fn = "min_max"
    /\ calc.driver
    /\ calc.v = u64(IMX283_VMAX_MAX)
    /\ u64_less(calc.min, calc.max)

\* SHR lies in the valid range [min_shr, min(0xFFFF, (svr + 1) * vmax - 4)]
\* of a timing with vmax * (svr + 1) > 4
CalcShrValid ==
    /\ u64_less(u64(4), CalcFrame)
    /\ u64_leq(calc.min_shr, calc.shr)
    /\ u64_leq(calc.shr, calculate_max_shr(calc.v, calc.svr))

\* C13: round-trip law: for a timing with VMAX * (SVR + 1) > 4 and every SHR
\* of the valid range, calculate_shr(calculate_v4l2_cid_exposure(SHR)) = SHR.
C13_RoundTrip ==
    (calc.fn = "round_trip" /\ CalcShrValid) => calc.shr_out = calc.shr

\* exposureLines(shr) of the specification for SHR <= VMAX * (SVR + 1):
\* ((VMAX * (SVR + 1) - shr) * HMAX + offset) div HMAX, which is
\* VMAX * (SVR + 1) - shr + offset div HMAX, limited to 0xFFFFFFFF
ExposureLines(shr) ==
    u64_min(u64_add(u64_sub(CalcFrame, shr), u64(CalcOffsetDiv)),
            << 255, 255, 255, 255, 0, 0, 0, 0 >>)

C15_ShrFormula ==
    (/\ calc.fn = "shr"
     /\ u64_leq(calc.exposure, u64_add(CalcFrame, u64(CalcOffsetCeil)))
     /\ u64_less(u64_sub(u64_add(CalcFrame, u64(CalcOffsetCeil)), calc.exposure),
                 << 0, 0, 0, 0, 1, 0, 0, 0 >>))
        => calc.shr_out
              = u64_sub(u64_add(CalcFrame, u64(CalcOffsetCeil)), calc.exposure)

----------------------------------------------------------------------------
(* Properties of the register codec                                        *)

\* the value of cdc.val fits in the token's width
CdcFits == \A i \in 1..8 : i > RegWidth(cdc.reg) => cdc.val[i] = 0

\* C17: once the shared error slot holds an error, a later cci_write or
\* cci_multi_reg_write given that slot performs no bus transaction and
\* leaves the slot's value unchanged; a later success never resets it to 0.
C17_SlotShortCircuitsWrites ==
    (cdc.fn \in {"write", "multi_write"} /\ cdc.has_err /\ cdc.err_in # 0
        /\ ~cdc.crashed)
        => (cdc.bus = << >> /\ cdc.err = cdc.err_in)

\* C18: cci_read and cci_write given a token whose width field is 0 or
\* greater than 8 return -EINVAL, perform no bus access and store nothing
\* beyond the 2 address bytes and 8 value bytes of the buffer (stated for a
\* call whose error slot, if any, is clear).
C18_WidthOutsideOneToEightRejected ==
    (cdc.fn \in {"read", "write"} /\ cdc.err_in = 0
        /\ RegWidth(cdc.reg) \notin 1..8)
        => /\ cdc.overrun = 0
           /\ ~cdc.crashed
           /\ cdc.bus = << >>
           /\ cdc.rv = 0 - EINVAL

\* C19: cci_write of value v to a token with address a and width w in 1..8
\* sends exactly 2 + w bytes: a's high byte, a's low byte, then the w
\* low-order bytes of v, most significant first for an untagged token and
\* least significant first for a token tagged little-endian.
C19_WriteSendsAddressThenValue ==
    (cdc.fn = "write" /\ RegWidth(cdc.reg) \in 1..8)
        => /\ Len(cdc.bus) = 1
           /\ cdc.bus[1].k = "send"
           /\ Len(cdc.bus[1].buf) = 2 + RegWidth(cdc.reg)
           /\ cdc.bus[1].buf[1] * 256 + cdc.bus[1].buf[2] = CdcAddr
           /\ \A j \in 1..RegWidth(cdc.reg) :
                 cdc.bus[1].buf[2 + j]
                    = IF cdc.reg >= CCI_REG_LE
                      THEN cdc.val[j]
                      ELSE cdc.val[RegWidth(cdc.reg) + 1 - j]

C19_Witness ==
    /\ cdc.fn = "write"
    /\ cdc.reg = CCI_REG_LE + 3 * CCI_REG_WIDTH_SHIFT + CdcAddr
    /\ cdc.val = << 8, 7, 6, 5, 4, 3, 2, 1 >>
    /\ cdc.err_in # 0
    /\ cdc.bus[1].buf = << 48, 54, 8, 7, 6 >>

\* C20: for every width in 1..8, every value that fits in width bytes and
\* both endianness tags, cci_read decodes the value bytes cci_write emitted
\* to the value written.
C20_ReadDecodesWhatWriteEncodes ==
    (cdc.fn = "read_back" /\ cdc.rv = 0 /\ CdcFits) => cdc.out = cdc.val

----------------------------------------------------------------------------
(* Properties of the control writes                                        *)

\* the positions of the successful writes to register reg in bus log l
WritesTo(l, reg) == {i \in 1..Len(l) : l[i].k = "w" /\ l[i].reg = reg /\ l[i].res = 0}

\* the value of the last successful write to reg in the log; -1 if none
LastWritten(reg) ==
    IF WritesTo(log, reg) = {}
    THEN 0 - 1
    ELSE log[CHOOSE i \in WritesTo(log, reg) :
                \A j \in WritesTo(log, reg) : j <= i].val

\* the exposure bounds of the specification for line length h and frame
\* length v of mode m (SVR = 0, offset = 209)
MinExposureOf(h, v) == v - Min(65535, v - 4) + (209 \div h)

MaxExposureOf(m, h, v) == v - m.min_SHR + (209 \div h)

\* C11: on a VBlank control write VMAX becomes mode.height + vblank, the
\* exposure bounds are recomputed from it, and the stored exposure value is
\* clamped into the new bounds and reported upward with them, before the
\* VMAX register is written; the exposure value reported is the clamp of the
\* stored exposure value and of nothing else.
C11_VBlankReportsClampedExposure ==
    [][(/\ last_op'.op = "s_ctrl"
        /\ last_op'.id = "VBLANK"
        /\ last_op'.ret = 0
        /\ ctrl'["VBLANK"] # ctrl["VBLANK"])
       => /\ vmax' = mode.height + ctrl'["VBLANK"]
          /\ exp_range' = [min |-> MinExposureOf(hmax', vmax'),
                           max |-> MaxExposureOf(mode, hmax', vmax')]
          /\ ctrl'["EXPOSURE"]
                = Clamp(ctrl["EXPOSURE"], exp_range'.min, exp_range'.max)
          /\ exp_def' = Clamp(ctrl["EXPOSURE"], exp_range'.min, exp_range'.max)
          /\ \A i \in WritesTo(log', IMX283_REG_SHR),
                j \in WritesTo(log', IMX283_REG_VMAX) : i < j]_vars

\* C16: a control write made while the device is not powered for streaming
\* writes no register and returns 0, and the control holds the value; the
\* registers a successful start has written last for the controls are the
\* ones derived from the values the controls hold.
C16_UnpoweredWriteHeldAndReplayed ==
    /\ (last_op.op = "s_ctrl" /\ last_op.pm_was = 0)
          => /\ last_op.ret = 0
             /\ \A i \in 1..Len(log) : log[i].k # "w"
             /\ ctrl[last_op.id] = last_op.val
    /\ (last_op.op = "set_stream" /\ last_op.enable /\ ~last_op.was
            /\ last_op.ret = 0 /\ streaming)
          => /\ vmax = mode.height + ctrl["VBLANK"]
             /\ LastWritten(IMX283_REG_VMAX) = vmax
             /\ hmax = MulDiv(mode.width + ctrl["HBLANK"], 72000000,
                              PixelRate(mode))
             /\ LastWritten(IMX283_REG_HMAX) = hmax
             /\ LastWritten(IMX283_REG_SHR)
                   = WireValue(IMX283_REG_SHR,
                               u64_low24(calculate_shr(u64(ctrl["EXPOSURE"]), u64(hmax),
                                                       u64(vmax), u64(0), u64(209))))
             /\ LastWritten(IMX283_REG_ANALOG_GAIN) = ctrl["ANALOGUE_GAIN"]
             /\ LastWritten(IMX283_REG_DIGITAL_GAIN) = ctrl["DIGITAL_GAIN"]
             /\ IF ctrl["TEST_PATTERN"] = 0
                THEN LastWritten(IMX283_REG_TPG_CTRL) = 0
                ELSE /\ LastWritten(IMX283_REG_TPG_PAT)
                           = imx283_tpg_val[ctrl["TEST_PATTERN"] + 1]
                     /\ LastWritten(IMX283_REG_TPG_CTRL)
                           = IMX283_TPG_CTRL_CLKEN + IMX283_TPG_CTRL_PATEN

C16_Witness ==
    /\ last_op.op = "set_stream"
    /\ last_op.enable
    /\ last_op.pm_was = 0
    /\ last_op.ret = 0
    /\ streaming
    /\ ctrl["VBLANK"] = IMX283_VMAX_MAX - mode.height
    /\ ctrl["HBLANK"] = 0
    /\ ctrl["EXPOSURE"] = exp_range.max
    /\ ctrl["ANALOGUE_GAIN"] = IMX283_ANA_GAIN_MAX
    /\ ctrl["DIGITAL_GAIN"] = IMX283_DGTL_GAIN_MAX
    /\ ctrl["TEST_PATTERN"] = 1
    /\ LastWritten(IMX283_REG_ANALOG_GAIN) = IMX283_ANA_GAIN_MAX
    /\ LastWritten(IMX283_REG_VMAX) = IMX283_VMAX_MAX

----------------------------------------------------------------------------
(* Properties of the pad formats                                           *)

\* the catalog a pixel code belongs to
CatalogOf(code) ==
    IF code \in {codes[i] : i \in 1..4}
    THEN supported_modes_12bit
    ELSE supported_modes_10bit

\* how far entry i of a catalog is from a requested size
SizeError(list, i, w, h) == Abs(list[i].width - w) + Abs(list[i].height - h)

\* the first of the nearest entries of a catalog
FirstNearest(list, w, h) ==
    CHOOSE i \in 1..Len(list) :
        /\ \A j \in 1..Len(list) : SizeError(list, i, w, h) <= SizeError(list, j, w, h)
        /\ \A j \in 1..(i - 1) : SizeError(list, j, w, h) > SizeError(list, i, w, h)

\* C21: set-format with a code of a catalog and a requested size selects the
\* catalog entry nearest to the request, the first such entry on a tie,
\* whatever the mode was before; 5000x3000 with a 12-bit code gives 5568x3664.
C21_NearestModeFirstOnTie ==
    (last_op.op = "set_fmt" /\ last_op.arg.code \in FmtCodes)
       => LET list == CatalogOf(last_op.arg.code)
              m == list[FirstNearest(list, last_op.arg.width, last_op.arg.height)]
          IN /\ last_op.ret = 0
             /\ last_op.fmt.width = m.width
             /\ last_op.fmt.height = m.height
             /\ (last_op.arg.which = "ACTIVE" => mode = m)
             /\ (last_op.arg.width = 5000 /\ last_op.arg.height = 3000
                   /\ last_op.arg.code = MEDIA_BUS_FMT_SRGGB12_1X12)
                  => (last_op.fmt.width = 5568 /\ last_op.fmt.height = 3664)

\* the position in codes of the group member the flip state selects
FlipMember(code, hflip, vflip) ==
    LET i == CHOOSE k \in 1..Len(codes) : codes[k] = code
    IN (((i - 1) \div 4) * 4) + (2 * vflip) + hflip + 1

\* C22: the pixel code returned by get-format, set-format and code
\* enumeration is the member of the requested code's group of four that the
\* flip state selects: position 0 with no flip, 1 with h-flip only, 2 with
\* v-flip only, 3 with both.
C22_CodeFollowsFlips ==
    (last_op.op \in {"set_fmt", "get_fmt", "enum_code"} /\ last_op.ret = 0)
       => last_op.fmt.code
             = codes[FlipMember(last_op.arg.code, ctrl["HFLIP"], ctrl["VFLIP"])]

\* rectangle a lies inside rectangle b
RectInside(a, b) ==
    /\ b.left <= a.left
    /\ b.top <= a.top
    /\ a.left + a.width <= b.left + b.width
    /\ a.top + a.height <= b.top + b.height

\* rectangle a has the same margins on opposite sides of rectangle b
RectCentered(a, b) ==
    /\ a.left - b.left = (b.left + b.width) - (a.left + a.width)
    /\ a.top - b.top = (b.top + b.height) - (a.top + a.height)

\* C29: the crop rectangle of every mode of both catalogs, the active one
\* included, lies inside the active pixel area, and the active pixel area is
\* centered within, and contained in, the native pixel array.
C29_CropInsideActiveInsideNative ==
    /\ RectInside(mode.crop, imx283_active_area)
    /\ \A i \in 1..Len(supported_modes_12bit) :
          RectInside(supported_modes_12bit[i].crop, imx283_active_area)
    /\ \A i \in 1..Len(supported_modes_10bit) :
          RectInside(supported_modes_10bit[i].crop, imx283_active_area)
    /\ RectInside(imx283_active_area, imx283_native_area)
    /\ RectCentered(imx283_active_area, imx283_native_area)

----------------------------------------------------------------------------
(* Properties of flip and blanking writes while streaming                  *)

\* C24: an HFlip or VFlip write attempted while streaming is rejected or
\* ignored: it writes no register and changes neither the flip values, the
\* format code, the mode nor the streaming state.
C24_NoFlipWhileActive ==
    [][(/\ last_op'.op = "s_ctrl"
        /\ last_op'.id \in {"HFLIP", "VFLIP"}
        /\ streaming)
       => /\ \A i \in 1..Len(log') : log'[i].k # "w"
          /\ ctrl' = ctrl
          /\ fmt_code' = fmt_code
          /\ mode' = mode
          /\ streaming' = streaming
          /\ hflip_grabbed' = hflip_grabbed
          /\ vflip_grabbed' = vflip_grabbed]_vars

C24_Witness ==
    /\ last_op.op = "s_ctrl"
    /\ last_op.id = "HFLIP"
    /\ last_op.was
    /\ streaming
    /\ last_op.val = 1
    /\ ctrl["HFLIP"] = 0
    /\ last_op.ret < 0

\* q is the truncated quotient of n by d
IsQuotient(q, n, d) ==
    /\ u64_leq(u64_mul(q, d), n)
    /\ u64_less(n, u64_mul(u64_add(q, u64(1)), d))

\* h = ((width + hblank) * 72000000) div pixelRate with
\* pixelRate = (width * 72000000) div min_HMAX, in 64-bit arithmetic
IsHmaxOf(m, hblank, h) ==
    /\ IsQuotient(u64(PixelRate(m)),
                  u64_mul(u64(m.width), u64(72000000)), u64(m.min_HMAX))
    /\ IsQuotient(u64(h),
                  u64_mul(u64(m.width + hblank), u64(72000000)),
                  u64(PixelRate(m)))
    /\ m.width + hblank < 131072

\* C28: an HBlank write while powered stores in hmax, and writes to the HMAX
\* register, ((width + hblank) * 72000000) div pixelRate with
\* pixelRate = (width * 72000000) div min_HMAX of the active mode, the
\* divisions truncating and the products not overflowing.
C28_HBlankSetsHmax ==
    [][(/\ last_op'.op = "s_ctrl"
        /\ last_op'.id = "HBLANK"
        /\ pm_usage > 0
        /\ ctrl["HBLANK"] # last_op'.val)
       => /\ last_op'.ret = 0
          /\ IsHmaxOf(mode, last_op'.val, hmax')
          /\ Len(log') = 1
          /\ log'[1].k = "w"
          /\ log'[1].reg = IMX283_REG_HMAX
          /\ log'[1].val = hmax'
          /\ ctrl'["HBLANK"] = last_op'.val]_vars

C28_Witness ==
    /\ last_op.op = "s_ctrl"
    /\ last_op.id = "HBLANK"
    /\ last_op.pm_was > 0
    /\ last_op.val = IMX283_HMAX_MAX
    /\ mode = supported_modes_10bit[2]
    /\ Len(log) = 1
    /\ log[1].reg = IMX283_REG_HMAX
    /\ log[1].val = hmax
    /\ hmax > mode.default_HMAX

----------------------------------------------------------------------------
(* Properties of the test pattern generator                                *)

\* C23: a test pattern write while powered: index 0 writes only TPG_CTRL <- 0;
\* an index in 1..6 writes the pattern value of the table to TPG_PAT and
\* then, only if that write succeeded, TPG_CTRL <- CLKEN | PATEN; an index
\* of 7 or more returns -EINVAL and writes no register.
C23_TestPatternWrites ==
    (last_op.op = "s_ctrl" /\ last_op.id = "TEST_PATTERN" /\ last_op.pm_was > 0)
       => CASE last_op.val = 0 ->
                 /\ Len(log) = 1
                 /\ log[1].k = "w"
                 /\ log[1].reg = IMX283_REG_TPG_CTRL
                 /\ log[1].val = 0
                 /\ last_op.ret = log[1].res
            [] last_op.val \in 1..6 ->
                 /\ Len(log) >= 1
                 /\ log[1].k = "w"
                 /\ log[1].reg = IMX283_REG_TPG_PAT
                 /\ log[1].val = imx283_tpg_val[last_op.val + 1]
                 /\ IF log[1].res = 0
                    THEN /\ Len(log) = 2
                         /\ log[2].k = "w"
                         /\ log[2].reg = IMX283_REG_TPG_CTRL
                         /\ log[2].val = IMX283_TPG_CTRL_CLKEN + IMX283_TPG_CTRL_PATEN
                         /\ last_op.ret = log[2].res
                    ELSE /\ Len(log) = 1
                         /\ last_op.ret = log[1].res
            [] OTHER ->
                 /\ last_op.ret = 0 - EINVAL
                 /\ log = << >>

C23_Witness ==
    /\ last_op.op = "s_ctrl"
    /\ last_op.id = "TEST_PATTERN"
    /\ last_op.pm_was > 0
    /\ last_op.val = 6
    /\ Len(log) = 1
    /\ log[1].reg = IMX283_REG_TPG_PAT
    /\ log[1].res < 0
    /\ last_op.ret < 0

----------------------------------------------------------------------------
(* Properties of the endpoint parsing                                      *)

\* the firmware list and link_frequencies share a frequency
EpCommon ==
    \E i \in 1..Len(lf.fw) : \E j \in 1..Len(link_frequencies) :
        lf.fw[i] = link_frequencies[j]

\* C25: with 4 data lanes and a non-empty firmware list, endpoint parsing
\* succeeds whenever the firmware list and the driver list {720 MHz,
\* 360 MHz} share a frequency; the link_freq_idx selected designates a
\* driver frequency that occurs in the firmware list, and no later operation
\* changes it.
C25_LinkFreqFromIntersection ==
    (lf.done /\ lf.lanes = 4 /\ Len(lf.fw) > 0 /\ EpCommon)
       => /\ lf.ret = 0
          /\ \E i \in 1..Len(lf.fw) : lf.fw[i] = link_frequencies[link_freq_idx + 1]
          /\ link_freq_idx = lf.link_freq_idx

----------------------------------------------------------------------------
(* Calls on different threads                                              *)

(* A call is played in steps: entry (after mutex_lock where the handler    *)
(* takes imx283->mutex), one step per bus transfer, and the return (with   *)
(* mutex_unlock).  A transfer is one step: the I2C core locks the adapter  *)
(* for the length of a transfer.  The handler's result is computed from    *)
(* the device structure as it is at entry; the fields it has changed are   *)
(* stored at the return.                                                   *)

\* thread t enters op: st is what the handler makes of the structure dev;
\* locked says that the handler takes imx283->mutex
Enter(t, op, dev, st, locked) ==
    /\ thr.run[t].op = "none"
    /\ thr.calls[t] < (IF t = "pm" THEN 2 * MaxCalls ELSE MaxCalls)
    /\ locked => thr.mutex = "none"
    /\ thr' = [thr EXCEPT !.mutex = IF locked THEN t ELSE @,
                          !.calls[t] = @ + 1,
                          !.run[t] = [op |-> op, pend |-> st.log, n |-> 0,
                                      in |-> dev, st |-> st]]

\* the structure after the call r has stored the fields it changed
Stored(r) ==
    LET cur == Dev(<< >>, 0)
    IN [f \in DOMAIN cur |-> IF r.st[f] # r.in[f] THEN r.st[f] ELSE cur[f]]

\* imx283_set_stream(sd, enable) up to the first transfer: mutex_lock at
\* its head
ConcSetStream ==
    \E enable \in BOOLEAN :
    \E u \in (IF streaming \/ ~enable THEN {0} ELSE Uninit) :
       /\ Enter("stream", "set_stream", Dev(<< >>, u),
                imx283_set_stream(Dev(<< >>, u), enable, 0), TRUE)
       /\ UNCHANGED <<drv_vars, sys_suspended, lf, calc, cdc, leg>>

\* a write to HBLANK up to the first transfer: the control framework takes
\* the handler's lock, which is imx283->mutex
ConcSetCtrl ==
    \E val \in {0, 100} :
       /\ Enter("ctrl", "s_ctrl", Dev(<< >>, 0),
                v4l2_s_ctrl(Dev(<< >>, 0), "HBLANK", val), TRUE)
       /\ UNCHANGED <<drv_vars, sys_suspended, lf, calc, cdc, leg>>

\* imx283_set_pad_format on the active format up to the first transfer:
\* mutex_lock at its head
ConcSetFormat ==
    \E sz \in {<<5568, 3664>>, <<2784, 1828>>} : \E u \in Uninit :
       /\ Enter("fmt", "set_fmt", Dev(<< >>, u),
                imx283_set_pad_format(Dev(<< >>, u), "ACTIVE", codes[1],
                                      sz[1], sz[2]), TRUE)
       /\ UNCHANGED <<drv_vars, sys_suspended, lf, calc, cdc, leg>>

\* imx283_suspend(dev) up to the first transfer; it takes no lock
ConcSuspend ==
    /\ ~sys_suspended
    /\ Enter("pm", "suspend", Dev(<< >>, 0), imx283_suspend(Dev(<< >>, 0)),
             FALSE)
    /\ UNCHANGED <<drv_vars, sys_suspended, lf, calc, cdc, leg>>

\* imx283_resume(dev) up to the first transfer; it takes no lock.  One of
\* its first ConcFaultAt transfers may fail.
ConcResume ==
    /\ sys_suspended
    /\ \E plan \in (IF streaming THEN FaultPlans(faults, 1, ConcFaultAt)
                    ELSE {<< >>}) :
       \E u \in (IF streaming THEN Uninit ELSE {0}) :
          Enter("pm", "resume", Dev(plan, u), imx283_resume(Dev(plan, u)),
                FALSE)
    /\ UNCHANGED <<drv_vars, sys_suspended, lf, calc, cdc, leg>>

\* the next transfer (or pause) of the call thread t is in
ConcTransfer ==
    \E t \in Threads :
       /\ thr.run[t].op # "none"
       /\ thr.run[t].pend # << >>
       /\ thr' = [thr EXCEPT !.run[t].pend = Tail(@),
                             !.run[t].n = @ + 1,
                             !.last = t]
       /\ UNCHANGED <<drv_vars, sys_suspended, lf, calc, cdc, leg>>

\* the call thread t is in returns: the fields the handler has changed are
\* stored, the mutex is released if the handler holds it
ConcLeave ==
    \E t \in Threads :
       /\ thr.run[t].op # "none"
       /\ thr.run[t].pend = << >>
       /\ Return(Stored(thr.run[t]), thr.run[t].op, FALSE)
       /\ thr' = [thr EXCEPT !.mutex = IF @ = t THEN "none" ELSE @,
                             !.run[t] = IdleRun]
       /\ sys_suspended' = CASE thr.run[t].op = "suspend" -> TRUE
                             [] thr.run[t].op = "resume" -> FALSE
                             [] OTHER -> sys_suspended
       /\ UNCHANGED <<lf, calc, cdc, leg>>

InitConc ==
    /\ Probed(ProbeState(0, 0))
    /\ sys_suspended = FALSE
    /\ log = << >>
    /\ last_op = [op |-> "probe", enable |-> FALSE, was |-> FALSE,
                  pm_was |-> 0, ret |-> 0]
    /\ faults = 1
    /\ lf = IdleLf
    /\ calc = IdleCalc
    /\ cdc = IdleCdc
    /\ thr = IdleThr
    /\ leg = IdleLeg

NextConc ==
    \/ ConcSetStream
    \/ ConcSetCtrl
    \/ ConcSetFormat
    \/ ConcSuspend
    \/ ConcResume
    \/ ConcTransfer
    \/ ConcLeave

SpecConc == InitConc /\ [][NextConc]_vars

----------------------------------------------------------------------------
(* Properties of the batch writes                                          *)

\* the entries of the batch that are writes
BatchWrites == {i \in 1..Len(cdc.results) :
                   cdc.fn = "multi_write" \/ CdcRegList[i].address # 65534}

\* write i of the batch failed
BatchFailed(i) ==
    IF cdc.fn = "multi_write" THEN cdc.results[i] < 0 ELSE cdc.results[i] # 3

\* what the failed write i returned
BatchFailure(i) == IF cdc.fn = "multi_write" THEN cdc.results[i] ELSE 0 - EIO

\* the address entry i of the batch is sent to
BatchAddr(i) ==
    IF cdc.fn = "multi_write" THEN RegAddr(CdcRegs[i].reg) ELSE CdcRegList[i].address

\* the entries up to the first failed write, all of them if none failed
BatchIssued ==
    {i \in 1..Len(cdc.results) :
        \A j \in BatchWrites : j < i => ~BatchFailed(j)}

\* C30: a batch write (cci_multi_reg_write, imx283_write_regs) issues the
\* writes of its sequence in list order, stops at the first write that
\* fails, issues no write after it and no compensating write, and returns
\* that first failure; it returns 0 only if every write succeeded.
C30_BatchStopsAtFirstFailure ==
    (cdc.fn \in {"multi_write", "write_regs"})
       => /\ Len(cdc.bus) = Cardinality(BatchIssued)
          /\ \A i \in BatchIssued :
                IF i \in BatchWrites
                THEN /\ cdc.bus[i].k = "send"
                     /\ cdc.bus[i].buf[1] = (BatchAddr(i) \div 256) % 256
                     /\ cdc.bus[i].buf[2] = BatchAddr(i) % 256
                ELSE cdc.bus[i].k = "sleep"
          /\ IF \E i \in BatchWrites : BatchFailed(i)
             THEN cdc.rv = BatchFailure(CHOOSE i \in BatchWrites :
                                           /\ BatchFailed(i)
                                           /\ \A j \in BatchWrites :
                                                 j < i => ~BatchFailed(j))
             ELSE cdc.rv = 0

C30_Witness ==
    /\ cdc.fn = "multi_write"
    /\ cdc.results[1] = 0
    /\ cdc.results[2] < 0
    /\ cdc.results[3] = 0
    /\ Len(cdc.bus) = 2
    /\ cdc.rv = cdc.results[2]

----------------------------------------------------------------------------
(* Properties of calls on different threads                                *)

\* thread t returns from its call in this step
Leaves(t) == thr.run[t].op # "none" /\ thr'.run[t].op = "none"

\* the call thread t is in writes imx283->streaming
WritesStreaming(t) == thr.run[t].st.streaming # thr.run[t].in.streaming

\* C26: imx283->streaming is written only by a thread that holds
\* imx283->mutex, in every operation that writes it, imx283_set_stream and
\* the failure path of imx283_resume included.
C26_StreamingWrittenUnderMutex ==
    [][\A t \in Threads :
          (Leaves(t) /\ WritesStreaming(t)) => thr.mutex = t]_vars

\* thread t is between two transfers of a start or stop sequence
MidSequence(t) ==
    /\ thr.run[t].op \in {"set_stream", "suspend", "resume"}
    /\ thr.run[t].n > 0
    /\ thr.run[t].pend # << >>

\* C27: under every interleaving of set_stream, control writes, set-format,
\* suspend and resume on different threads, a start or stop sequence is
\* never interleaved with the register writes of another operation: while a
\* thread is between two transfers of its sequence, the last transfer on
\* the bus is its own.  (Two transfers are never in flight together: a
\* transfer is one step.)
C27_SequencesNotInterleaved ==
    \A t \in Threads : MidSequence(t) => thr.last = t

----------------------------------------------------------------------------
(* Properties of the exposure write                                        *)

\* the SHR value imx283_set_ctrl computes for exposure e with the stored
\* line and frame lengths
ShrOf(e) ==
    u64_int(calculate_shr(u64(e), u64(hmax), u64(vmax), u64(0), u64(209)))

\* the last call was a write of the exposure control that reached the
\* sensor, with a value inside the bounds computed for the stored VMAX
ExposureWritten ==
    /\ last_op.op = "s_ctrl"
    /\ last_op.id = "EXPOSURE"
    /\ last_op.ret = 0
    /\ WritesTo(log, IMX283_REG_SHR) # {}
    /\ vmax = mode.height + ctrl["VBLANK"]
    /\ last_op.val >= MinExposureOf(hmax, vmax)
    /\ last_op.val <= MaxExposureOf(mode, hmax, vmax)

\* C31: for every VMAX reachable through the VBlank control and every
\* exposure value inside the bounds computed for that VMAX, the SHR value an
\* exposure write sends lies in [min_SHR of the mode, min(0xFFFF, VMAX - 4)]
\* and so reaches the 16-bit SHR register without truncation.
C31_ShrInValidRange ==
    ExposureWritten
       => /\ ShrOf(last_op.val) >= mode.min_SHR
          /\ ShrOf(last_op.val) <= Min(65535, vmax - 4)
          /\ LastWritten(IMX283_REG_SHR) = ShrOf(last_op.val)

----------------------------------------------------------------------------
(* Properties of the runtime-PM references                                 *)

\* C32: after any sequence of set_stream, suspend and resume calls with
\* arbitrary failures the usage count held for streaming is 1 while
\* streaming is set and 0 while it is not; a start that fails gives back the
\* reference it took.
C32_OneReferenceIffStreaming ==
    /\ pm_usage = (IF streaming THEN 1 ELSE 0)
    /\ (last_op.op = "set_stream" /\ last_op.enable /\ last_op.ret # 0)
          => pm_usage = last_op.pm_was

----------------------------------------------------------------------------
(* Properties of the code lookup                                           *)

\* the last call looked its code up in the table
LookedUp ==
    \/ last_op.op \in {"set_fmt", "get_fmt", "open"}
    \/ last_op.op = "enum_code" /\ last_op.ret = 0
    \/ last_op.op = "enum_size" /\ last_op.arg.index < Len(get_mode_table(last_op.arg.code))

\* C33: for every pixel code passed to set-format, get-format or frame-size
\* enumeration, codes outside the table included, imx283_get_format_code
\* reads only indices 0..7 of the table, and set-format never builds its
\* reply from a mode of an empty catalog.
C33_LookupStaysInsideTable ==
    /\ LookedUp => get_format_code_i(last_op.arg.code) \in 0..(Len(codes) - 1)
    /\ last_op.op = "set_fmt" => ~last_op.oops

\* C34: every execution of imx283_get_format_code happens while the caller
\* holds imx283->mutex (its lockdep assertion holds), for open, get-format,
\* set-format, code enumeration and frame-size enumeration.
C34_LookupUnderMutex ==
    LookedUp => last_op.lockdep

----------------------------------------------------------------------------
(* Properties of the active and the TRY format                             *)

\* C35: after a set-format on the active format has returned code c, width
\* w and height h, a get-format of the active format issued next returns
\* the same c, w and h, for every requested code and size and every
\* previously active mode.
C35_GetReturnsWhatSetReturned ==
    [][(/\ last_op.op = "set_fmt"
        /\ last_op.arg.which = "ACTIVE"
        /\ last_op.ret = 0
        /\ last_op'.op = "get_fmt"
        /\ last_op'.arg.which = "ACTIVE")
       => last_op'.fmt = last_op.fmt]_vars

\* C36: after any sequence of set-format calls and HBlank and VBlank writes
\* inside the control ranges, the stored hmax fits the 16-bit HMAX register
\* (the largest line length the HBlank range gives the active mode is below
\* 2^16, so the u16 field cuts nothing off) and is at least the active
\* mode's min_HMAX, and the stored vmax lies in [min_VMAX of the active
\* mode, 0xFFFFF].
C36_FramingInsideRegisters ==
    /\ hmax >= mode.min_HMAX
    /\ hmax <= IMX283_HMAX_MAX
    /\ MulDiv(mode.width + IMX283_HMAX_MAX, 72000000, PixelRate(mode))
          <= IMX283_HMAX_MAX
    /\ vmax >= mode.min_VMAX
    /\ vmax <= IMX283_VMAX_MAX

C36_Witness ==
    /\ streaming
    /\ mode = supported_modes_12bit[2]
    /\ ctrl["HBLANK"] = IMX283_HMAX_MAX
    /\ hmax > 8000
    /\ vmax = IMX283_VMAX_MAX
    /\ last_op.op = "s_ctrl"

\* C37: set-format with which = TRY changes only the caller's TRY format:
\* the active mode, fmt_code, hmax, vmax, the control values and ranges and
\* streaming are unchanged, and no register is written.
C37_TryLeavesDeviceAlone ==
    [][(last_op'.op = "set_fmt" /\ last_op'.arg.which = "TRY")
       => /\ UNCHANGED <<mode, fmt_code, hmax, vmax, ctrl, exp_range, exp_def,
                         streaming, hflip_grabbed, vflip_grabbed, pm_usage,
                         powered, freq, link_freq_idx>>
          /\ log' = << >>
          /\ (~last_op'.oops => try_fmt' = last_op'.fmt)]_vars

C37_Witness ==
    /\ last_op.op = "set_fmt"
    /\ last_op.arg.which = "TRY"
    /\ last_op.ret = 0
    /\ ~last_op.oops
    /\ streaming
    /\ mode = supported_modes_12bit[1]
    /\ try_fmt.width = supported_modes_10bit[2].width
    /\ try_fmt.height = supported_modes_10bit[2].height

----------------------------------------------------------------------------
(* Properties of the device mutex                                          *)

\* C38: every operation that takes imx283->mutex (open, get-format,
\* set-format, set_stream, crop selection) has released it when it is over,
\* on success and on every error path, a failed power-up and a failed start
\* included, so that no later call blocks on the mutex.
C38_MutexReleased ==
    "locked" \in DOMAIN last_op => ~last_op.locked

----------------------------------------------------------------------------
(* The earlier driver variant: the common register list                    *)

\* mode_common_regs[] of the earlier variant; address 0xFFFE is a pause
mode_common_regs ==
    << [address |-> 12288, val |-> 10],
       [address |-> 14017, val |-> 2],
       [address |-> 14018, val |-> 240],
       [address |-> 14019, val |-> 0],
       [address |-> 14071, val |-> 2],
       [address |-> 14072, val |-> 192],
       [address |-> 12291, val |-> 119],
       [address |-> 13994, val |-> 0],
       [address |-> 12811, val |-> 0],
       [address |-> 65534, val |-> 1],
       [address |-> 12288, val |-> 0],
       [address |-> 65534, val |-> 20],
       [address |-> 12289, val |-> 16],
       [address |-> 12549, val |-> 0],
       [address |-> 12551, val |-> 162] >>

\* mode_4056x3040_regs[] of the earlier variant, the register list of its
\* only mode
mode_4056x3040_regs ==
    << [address |-> 12292, val |-> 4],
       [address |-> 12293, val |-> 3],
       [address |-> 12294, val |-> 16],
       [address |-> 12295, val |-> 0],
       [address |-> 12297, val |-> 0],
       [address |-> 12298, val |-> 0],
       [address |-> 12299, val |-> 48],
       [address |-> 12303, val |-> 0],
       [address |-> 12304, val |-> 0],
       [address |-> 12305, val |-> 0],
       [address |-> 12306, val |-> 0],
       [address |-> 12307, val |-> 0],
       [address |-> 12308, val |-> 0],
       [address |-> 12335, val |-> 110],
       [address |-> 12336, val |-> 14],
       [address |-> 12337, val |-> 126],
       [address |-> 12338, val |-> 14],
       [address |-> 12339, val |-> 16],
       [address |-> 12342, val |-> 132],
       [address |-> 12343, val |-> 3],
       [address |-> 12344, val |-> 160],
       [address |-> 12345, val |-> 47],
       [address |-> 12346, val |-> 0],
       [address |-> 12347, val |-> 240],
       [address |-> 12348, val |-> 15],
       [address |-> 12376, val |-> 120],
       [address |-> 12377, val |-> 0],
       [address |-> 12378, val |-> 240],
       [address |-> 12379, val |-> 21] >>

\* the register writes of a list, without its pauses
RegWrites(regs) == SelectSeq(regs, LAMBDA r : r.address # 65534)

\* the i2c_master_send calls of a bus log
Sends(bus) == SelectSeq(bus, LAMBDA e : e.k = "send")

\* the buffer imx283_write_reg_1byte sends for a list entry
SendBuf(r) == << (r.address \div 256) % 256, r.address % 256, r.val >>

\* the bus log begins with a write of the first common register
CommonListBegun(bus) ==
    /\ Sends(bus) # << >>
    /\ Sends(bus)[1].buf = SendBuf(RegWrites(mode_common_regs)[1])

\* the bus log holds every write of the common list, each of them sent whole
CommonListDone(bus) ==
    /\ Len(Sends(bus)) >= Len(RegWrites(mode_common_regs))
    /\ \A i \in 1..Len(RegWrites(mode_common_regs)) :
          /\ Sends(bus)[i].buf = SendBuf(RegWrites(mode_common_regs)[i])
          /\ Sends(bus)[i].res = 3

\* the bus log holds a write to a register of the mode list
ModeRegisterWritten(bus) ==
    \E i \in 1..Len(bus) : \E j \in 1..Len(mode_4056x3040_regs) :
        /\ bus[i].k = "send"
        /\ bus[i].buf[1] * 256 + bus[i].buf[2] = mode_4056x3040_regs[j].address

\* int imx283_start_streaming(imx283) of the earlier variant; rc and rm are
\* what i2c_master_send returns for the entries of the two lists, setup is
\* what __v4l2_ctrl_handler_setup returns
legacy_start_streaming(l, rc, rm, setup) ==
    LET a == IF ~l.common_regs_written
             THEN imx283_write_regs(l, mode_common_regs, rc, 1)
             ELSE [l EXCEPT !.rv = 0]
    IN IF ~l.common_regs_written /\ a.rv # 0
       THEN a
       ELSE LET b == IF ~l.common_regs_written
                     THEN [a EXCEPT !.common_regs_written = TRUE]
                     ELSE a
                c == imx283_write_regs(b, mode_4056x3040_regs, rm, 1)
            IN IF c.rv # 0
               THEN c
               ELSE [c EXCEPT !.bus = Append(@, [k |-> "setup", res |-> setup]),
                              !.rv = setup]

\* void imx283_stop_streaming(imx283) of the earlier variant: the standby
\* write to IMX283_REG_MODE_SELECT (0x3000), its result ignored
legacy_stop_streaming(l, sent) ==
    [imx283_write_reg_1byte(l, 12288, 1, sent) EXCEPT !.rv = l.rv]

\* imx283_power_off that keeps the flag
legacy_power_off_keeps_flag(l) ==
    [l EXCEPT !.powered = FALSE, !.rv = 0]

\* int imx283_power_off(dev) of the earlier variant
legacy_power_off(l) ==
    [l EXCEPT !.powered = FALSE, !.common_regs_written = FALSE, !.rv = 0]

\* int imx283_set_stream(sd, enable) of the earlier variant; pm_err is what
\* imx283_power_on returns when pm_runtime_get_sync has to resume the device
legacy_set_stream(l, enable, pm_err, rc, rm, setup, sent) ==
    IF l.streaming = enable
    THEN [l EXCEPT !.rv = 0]
    ELSE IF enable
         THEN LET g == [l EXCEPT !.pm_usage = @ + 1]
              IN IF ~g.powered /\ pm_err < 0
                 THEN [g EXCEPT !.pm_usage = @ - 1, !.rv = pm_err]
                 ELSE LET s == legacy_start_streaming(
                                   [g EXCEPT !.powered = TRUE], rc, rm, setup)
                      IN IF s.rv # 0
                         THEN [s EXCEPT !.pm_usage = @ - 1]
                         ELSE [s EXCEPT !.streaming = TRUE]
         ELSE [legacy_stop_streaming([l EXCEPT !.rv = 0], sent)
                 EXCEPT !.pm_usage = @ - 1, !.streaming = FALSE]

\* int imx283_suspend(dev) of the earlier variant
legacy_suspend(l, sent) ==
    IF l.streaming
    THEN [legacy_stop_streaming(l, sent) EXCEPT !.rv = 0]
    ELSE [l EXCEPT !.rv = 0]

\* int imx283_resume(dev) of the earlier variant
legacy_resume(l, rc, rm, setup, sent) ==
    IF l.streaming
    THEN LET s == legacy_start_streaming(l, rc, rm, setup)
         IN IF s.rv # 0
            THEN [legacy_stop_streaming(s, sent) EXCEPT !.streaming = FALSE]
            ELSE [s EXCEPT !.rv = 0]
    ELSE [l EXCEPT !.rv = 0]

\* what i2c_master_send returns for the entries of the two lists when the
\* p-th entry (counted over both lists) is answered with bad; p = 0: none
SendResults(regs, p, bad) == [i \in 1..Len(regs) |-> IF i = p THEN bad ELSE 3]

\* the entries of both lists
ListEntries == Len(mode_common_regs) + Len(mode_4056x3040_regs)

\* the entry that is answered with an error: none, or any entry
FailedEntry == 0..ListEntries

\* the call op starts on l
LegCall(l, op) ==
    [l EXCEPT !.bus = << >>, !.rv = 0, !.op = op,
              !.was_written = l.common_regs_written, !.was_listed = l.listed]

\* the call has returned l
LegReturn(l) ==
    /\ leg' = [l EXCEPT !.listed = IF CommonListDone(l.bus) THEN @ + 1 ELSE @]
    /\ UNCHANGED <<drv_vars, sys_suspended, lf, calc, cdc, thr>>

\* s_stream(1) of the earlier variant
LegStreamOn ==
    /\ ~leg.suspended
    /\ leg.pm_usage < MaxUsage
    /\ \E pm_err \in (IF leg.powered THEN {0} ELSE {0, 0 - EIO}) :
       \E p \in FailedEntry :
       \E bad \in (IF p = 0 THEN {3} ELSE {1, 0 - ENXIO}) :
       \E setup \in (IF p = 0 THEN {0, 0 - EIO} ELSE {0}) :
          LegReturn(legacy_set_stream(
                        LegCall(leg, "stream_on"), TRUE, pm_err,
                        SendResults(mode_common_regs, p, bad),
                        SendResults(mode_4056x3040_regs,
                                    p - Len(mode_common_regs), bad),
                        setup, 3))

\* s_stream(0) of the earlier variant
LegStreamOff ==
    /\ ~leg.suspended
    /\ \E sent \in {3, 0 - ENXIO} :
          LegReturn(legacy_set_stream(
                        LegCall(leg, "stream_off"), FALSE, 0,
                        SendResults(mode_common_regs, 0, 3),
                        SendResults(mode_4056x3040_regs, 0, 3), 0, sent))

\* runtime suspend of the idle device, queued by pm_runtime_put: the
\* runtime-PM core calls imx283_power_off
LegPowerOff ==
    /\ ~leg.suspended
    /\ leg.powered
    /\ leg.pm_usage = 0
    /\ leg' = [legacy_power_off(LegCall(leg, "power_off"))
                EXCEPT !.listed = 0,
                       !.reset = @ \/ leg.common_regs_written]
    /\ UNCHANGED <<drv_vars, sys_suspended, lf, calc, cdc, thr>>

\* system sleep of the earlier variant
LegSuspend ==
    /\ ~leg.suspended
    /\ \E sent \in {3, 0 - ENXIO} :
          LegReturn([legacy_suspend(LegCall(leg, "suspend"), sent)
                       EXCEPT !.suspended = TRUE])

\* system wake-up of the earlier variant
LegResume ==
    /\ leg.suspended
    /\ \E p \in FailedEntry :
       \E bad \in (IF p = 0 THEN {3} ELSE {0 - ENXIO}) :
       \E setup \in (IF p = 0 THEN {0, 0 - EIO} ELSE {0}) :
          LegReturn([legacy_resume(
                         LegCall(leg, "resume"),
                         SendResults(mode_common_regs, p, bad),
                         SendResults(mode_4056x3040_regs,
                                     p - Len(mode_common_regs), bad),
                         setup, 3)
                       EXCEPT !.suspended = FALSE])

NextLegacy ==
    LegStreamOn \/ LegStreamOff \/ LegPowerOff \/ LegSuspend \/ LegResume

SpecLegacy == InitCtrl /\ [][NextLegacy]_vars

\* the last call of the earlier variant ran imx283_start_streaming
LegStarted ==
    \/ leg.op = "stream_on" /\ leg.bus # << >>
    \/ leg.op = "resume" /\ leg.bus # << >>

\* C39: in the earlier variant a stream start writes the common register
\* list exactly when the list has not been written completely since the last
\* power-off; common_regs_written is true exactly when it has; a failed write
\* of the list leaves the flag false and ends the start before any mode
\* register is written; power-off resets the flag.
C39_CommonListOncePerPowerCycle ==
    /\ leg.common_regs_written = (leg.listed > 0)
    /\ leg.listed <= 1
    /\ LegStarted => (CommonListBegun(leg.bus) = (leg.was_listed = 0))
    /\ (LegStarted /\ CommonListBegun(leg.bus) /\ ~CommonListDone(leg.bus))
          => /\ ~leg.common_regs_written
             /\ ~ModeRegisterWritten(leg.bus)
             /\ leg.rv < 0
    /\ leg.op = "power_off" => ~leg.common_regs_written

\* a start after a power cycle that followed a complete start: the list is
\* written again
C39_Witness ==
    /\ leg.op = "stream_on"
    /\ leg.reset
    /\ leg.streaming
    /\ leg.was_listed = 0
    /\ CommonListDone(leg.bus)
    /\ ModeRegisterWritten(leg.bus)
    /\ leg.common_regs_written

====
